---------------------------- MODULE Spec2Model ----------------------------
(***************************************************************************)
(* A model of the zpool command-line tool (cmd/zpool) and of the Linux     *)
(* vdev I/O backends (module/os/linux/zfs).  The module holds several      *)
(* specifications, one per part of the program:                            *)
(*                                                                         *)
(*   SpecIostat  the per-vdev statistics delta of zpool iostat             *)
(*   SpecTrim    the TRIM status of a leaf in zpool status                 *)
(*   SpecHealth  the configuration rows of zpool status, with -e pruning   *)
(*   SpecClass   the sections of status, import, list -v, iostat -v and    *)
(*               the dry-run tree of create, on pools with class vdevs     *)
(*   SpecWait    the main thread and the status thread of zpool wait;      *)
(*               SpecWaitFair is SpecWait with both threads scheduled      *)
(*   SpecBlkio   the libblkio vdev backend: io_start, the queues and the   *)
(*               completion threads                                        *)
(*   SpecHisto   the average of a latency histogram in zpool iostat        *)
(*   SpecWidth   the width of the name column of list, iostat and status   *)
(*   SpecEst     the remaining-time estimates of zpool status              *)
(*   SpecIo      the pool list of zpool iostat across its iterations       *)
(*   SpecDisk    the disk vdev backend: the open loop and io_start         *)
(*   SpecExit    the exit status of the zpool command                      *)
(*   SpecVbio    the disk vdev backend: one ZIO split into several BIOs    *)
(*   SpecWaitLoop  the passes of zpool wait over the enabled activities    *)
(*   SpecReopen  the disk vdev backend: io_start while the vdev reopens    *)
(*   SpecGet     zpool get with vdev names                                 *)
(*   SpecUnhealthy  zpool status -e on pools with class vdevs, cache       *)
(*               devices and spares                                        *)
(*                                                                         *)
(* Every specification leaves the variables of the other parts at their    *)
(* idle values.                                                            *)
(***************************************************************************)
EXTENDS Integers, Sequences, FiniteSets, TLC

VARIABLES
    \* ---- zpool get: the vdev names handed to get_callback ----
    gt_argv,        \* the arguments of zpool get after the property list
    gt_pc,          \* where zpool_do_get and get_callback are
    gt_type,        \* cb_type
    gt_names,       \* the array cb_vdevs.cb_names points to
    gt_count,       \* cb_vdevs.cb_names_count
    gt_vid,         \* vid of get_callback
    gt_reported,    \* the names get_callback_vdev was called with
    gt_oob,         \* whether cb_names was read past its end
    \* ---- vdev_disk: I/O started while the vdev is reopened ----
    ro_writer,      \* whether vd_lock is held as writer
    ro_readers,     \* the zios whose thread holds vd_lock as reader
    ro_bdev,        \* vd->vd_bdev: a handle number, 0 for NULL
    ro_released,    \* the handles given back with vdev_blkdev_put()
    ro_handles,     \* handles opened so far
    ro_pc,          \* where the reopen in vdev_disk_open is
    ro_local,       \* bdev of vdev_disk_open
    ro_reopens,     \* reopens begun so far
    ro_zio,         \* for each zio its type, where vdev_disk_io_start is with it, the handle it read and its io_error
    ro_stale,       \* whether a handle was used after it was given back
    \* ---- zpool wait: the loop over the activities ----
    wl_enabled,     \* wd_enabled, the activities to wait for
    wl_active,      \* the activities in progress in the pool
    wl_pc,          \* where the waiting loop of zpool_do_wait is: pass, waiting or done
    wl_i,           \* i of the loop over the activities
    wl_any_waited,  \* any_waited of the pass
    wl_missing,     \* missing
    wl_error,       \* error
    wl_idle_seen,   \* the activities this pass found not in progress without waiting
    wl_owed,        \* the enabled activities that began during a wait and were not waited for since
    \* ---- vdev_disk: a ZIO split into several BIOs ----
    vb_1arg,        \* whether the build has HAVE_1ARG_BIO_END_IO_T
    vb_nbios,       \* vbio_nbios, the BIOs of the VBIO
    vb_pc,          \* where vbio_submit is: start, loop, put or done
    vb_i,           \* i of the submission loop
    vb_ref,         \* vbio_ref
    vb_error,       \* vbio_error
    vb_bio,         \* for each BIO where it is, its result and what its completion read
    vb_freed,       \* how often vbio_free ran
    vb_last,        \* who dropped the last reference
    vb_uaf,         \* whether the VBIO was touched after it was freed
    vb_first,       \* the error of the first BIO that completed with one, 0 if none
    vb_zio,         \* io_error of the ZIO and how often it was handed back
    \* ---- zpool: the exit status of an invocation ----
    ex_in,          \* the invocation: command word, options, operands and what the library answers
    ex_pc,          \* where the invocation is: main, in a command function, returning or exited
    ex_ret,         \* ret of main()
    ex_code,        \* the exit status the process ended with, -1 before
    ex_kind,        \* how the invocation ended: success, failure or usage
    \* ---- zpool wait: what each thread touches ----
    wd_log,         \* the accesses the two threads of zpool wait made to wait_data_t fields and pool handles
    zhp_count,      \* pool handles zpool_open() has returned so far
    m_zhp,          \* zhp of zpool_do_wait, 0 while not open
    w_zhp,          \* zhp of wait_status_thread, 0 while not open
    \* ---- vdev_disk: opening a disk and starting I/O on it ----
    dk_pc,          \* where vdev_disk_open is: closed, loop, out, open or failed
    dk_bdev,        \* what bdev holds: an error number, or 0 for a block device
    dk_timeout,     \* the open timeout in ticks
    dk_elapsed,     \* gethrtime() - start in ticks
    dk_removed,     \* v->vdev_removed
    dk_attempts,    \* calls of vdev_blkdev_get_by_path() made by this open
    dk_prev,        \* what bdev held before the last call
    dk_ret,         \* the return value of vdev_disk_open, -1 before it returns
    dk_zio,         \* the zio vdev_disk_io_start was last given
    dk_nzio,        \* zios given to vdev_disk_io_start so far
    \* ---- zpool iostat: the pools of the list across the iterations ----
    io_list,        \* the pools of the list zpool iostat works on, in order
    io_phase,       \* where zpool_do_iostat is in its loop: refresh, print or done
    io_cursor,      \* the position of pool_list_iter() in the list
    io_iter,        \* cb_iteration, the iteration under way, counted from 1
    io_gone,        \* the <<iteration, pool>> pairs of the refreshes that reported a pool missing
    io_log,         \* what happened: <<iteration, pool, "refreshed" or "rendered">>
    \* ---- zpool status: the remaining-time estimate of an operation in progress ----
    est_kind,       \* what is in progress: a scan, a removal or a raidz expansion
    est_in,         \* its statistics (pool_scan_stat_t, pool_removal_stat_t, ...) and the clock
    est_out,        \* the end of the progress line: <<>> before it is printed
    \* ---- the name column width of one pool ----
    nw_cmd,         \* the command computing the name column width: status or list -v
    nw_root,        \* the vdev tree of the pool (ZPOOL_CONFIG_VDEV_TREE)
    nw_poolname_len, \* strlen(zpool_get_name(zhp))
    nw_width,       \* cb_namewidth: <<>> before the pass, <<width>> after
    \* ---- zpool iostat -l: the average of one latency histogram ----
    histo,          \* the uint64_t histo[] handed to single_histo_average
    histo_avg,      \* what it returned: <<>> before the call, <<value>> after
    \* ---- zpool iostat: one call of print_vdev_stats on one vdev ----
    cb_flags,       \* iostat_cbdata_t.cb_flags: the set of IOS_*_M bits
    oldnv,          \* the old snapshot of the vdev: <<>> (NULL) or <<nvlist>>
    newnv,          \* the new snapshot of the vdev (an nvlist)
    calc,           \* what the call computed: calcvs and the stat_arrays
    scale,          \* the scaling factor, a fraction [num, den]
    ios_pc,         \* "call" before print_vdev_stats, "done" after
    \* ---- zpool status: the TRIM status of one leaf ----
    trim_vs,        \* the vdev_stat_t of the leaf, its TRIM fields
    trim_verbose,   \* cb_print_vdev_trim (zpool status -t)
    trim_out,       \* what print_status_trim printed
    trim_pc,        \* "call" before print_status_trim, "done" after
    \* ---- the configuration rows of one pool, as a command renders them ----
    st_cmd,         \* the command: status, import, list, iostat, create -n
    st_root,        \* the vdev tree of the pool (ZPOOL_CONFIG_VDEV_TREE)
    st_oldroot,     \* iostat: the vdev tree of the previous snapshot, if any
    st_cb,          \* status_cbdata_t: cb_print_unhealthy, cb_print_slow_ios
    st_out,         \* the headers and rows printed, in order
    st_pc,          \* "call" before the render, "done" after
    \* ---- zpool wait: the main thread and the status thread ----
    wd_should_exit, \* wait_data_t.wd_should_exit
    wd_mutex,       \* the holder of wd_mutex: "free", "main" or "worker"
    w_pc,           \* where wait_status_thread is
    w_ret,          \* its local ret
    w_rows,         \* the status rows it has printed (counted up to MaxRows)
    w_exit,         \* how it ended: "break", "missing" or "error"
    m_pc,           \* where zpool_do_wait is
    m_error,        \* its local error
    \* ---- vdev_blkio: one vdev, its queues and completion threads ----
    vdev_tsd,       \* vd->vdev_tsd: <<>> for NULL, else <<nq>> (queues in use)
    zios,           \* the zio_t handed to io_start, and where io_start is
    vbr,            \* the vdev_blkio_req_t slots of vdev_blkio_req_cache
    vbt_lock,       \* vbt_lock of each vdev_blkio_thread_t and its holder
    blkioq,         \* each libblkio queue: in flight, completions, event fd
    vbt_pc,         \* where each completion thread is
    completion,     \* the completion[] array of each completion thread
    blk_panic       \* the process died on a NULL dereference

iostatVars == <<cb_flags, oldnv, newnv, calc, scale, ios_pc>>
trimVars == <<trim_vs, trim_verbose, trim_out, trim_pc>>
statusVars == <<st_cmd, st_root, st_oldroot, st_cb, st_out, st_pc>>
waitVars == <<wd_should_exit, wd_mutex, w_pc, w_ret, w_rows, w_exit, m_pc,
              m_error>>
blkioVars == <<vdev_tsd, zios, vbr, vbt_lock, blkioq, vbt_pc, completion,
               blk_panic>>

histoVars == <<histo, histo_avg>>

nwVars == <<nw_cmd, nw_root, nw_poolname_len, nw_width>>

estVars == <<est_kind, est_in, est_out>>

ioVars == <<io_list, io_phase, io_cursor, io_iter, io_gone, io_log>>

diskVars == <<dk_pc, dk_bdev, dk_timeout, dk_elapsed, dk_removed, dk_attempts, dk_prev, dk_ret, dk_zio, dk_nzio>>

accVars == <<wd_log, zhp_count, m_zhp, w_zhp>>

exitVars == <<ex_in, ex_pc, ex_ret, ex_code, ex_kind>>

vbioVars == <<vb_1arg, vb_nbios, vb_pc, vb_i, vb_ref, vb_error, vb_bio, vb_freed, vb_last, vb_uaf, vb_first, vb_zio>>

wlVars == <<wl_enabled, wl_active, wl_pc, wl_i, wl_any_waited, wl_missing, wl_error, wl_idle_seen, wl_owed>>

roVars == <<ro_writer, ro_readers, ro_bdev, ro_released, ro_handles, ro_pc, ro_local, ro_reopens, ro_zio, ro_stale>>

getVars == <<gt_argv, gt_pc, gt_type, gt_names, gt_count, gt_vid, gt_reported, gt_oob>>

vars == <<getVars, roVars, wlVars, vbioVars, exitVars, accVars, diskVars, ioVars, estVars, nwVars, histoVars, iostatVars, trimVars, statusVars, waitVars, blkioVars>>

(***************************************************************************)
(* Bounds of the model.                                                    *)
(***************************************************************************)
\* The largest value a statistics counter of a snapshot takes.
MaxCounter == 1
\* The width in bits of a counter; uint64_t in the source, narrowed so that
\* the wrap-around of an unsigned subtraction stays visible.
CounterBits == 4

(***************************************************************************)
(* zpool iostat: the statistics delta (zpool_iostat.c)                     *)
(***************************************************************************)
NANOSEC == 1000000000

\* 2^n
RECURSIVE Pow2(_)
Pow2(n) == IF n = 0 THEN 1 ELSE 2 * Pow2(n - 1)

\* a - b on an unsigned counter (the reversed subtraction: a plausible slip)
U64SubReversed(a, b) == (b - a) % Pow2(CounterBits)

\* a - b on an unsigned counter: the result wraps around below zero
U64Sub(a, b) == (a - b) % Pow2(CounterBits)

\* The values a counter of a snapshot is drawn from.
CounterVals == {0, MaxCounter}

\* The entries of vs_ops[] and vs_bytes[] that zpool iostat prints.
ZioTypes == {"ZIO_TYPE_READ", "ZIO_TYPE_WRITE"}

\* The buckets of a latency histogram.
HistoBuckets == 1..2

\* The nvlist names of print_iostat_latency(), print_iostat_queues() and of
\* the latency histogram (vsx_type_to_nvlist[]), one of each kind.
LatencyNames == {"vdev_tot_r_lat_histo"}
QueueNames == {"vdev_sync_r_pend_queue"}
HistoNames == {"vdev_tot_r_lat_histo"}

\* vdev_stat_t, the fields the delta reads.
VdevStat == [vs_timestamp : {NANOSEC, 2 * NANOSEC},
             vs_ops : [ZioTypes -> CounterVals],
             vs_bytes : [ZioTypes -> CounterVals]]

\* The extended statistics (ZPOOL_CONFIG_VDEV_STATS_EX): a uint64 array per
\* histogram, a single uint64 (an array of one) per queue depth.
VdevStatEx == {[n \in LatencyNames \cup QueueNames |->
                   IF n \in LatencyNames THEN h ELSE q] :
                 h \in [HistoBuckets -> CounterVals],
                 q \in [1..1 -> CounterVals]}

\* The nvlist of one vdev: its statistics and its extended statistics.
VdevNvlist == [vs : VdevStat, vsx : VdevStatEx]

\* vdev_stat_t zerovs = { 0 }
zerovs == [vs_timestamp |-> 0,
           vs_ops |-> [i \in ZioTypes |-> 0],
           vs_bytes |-> [i \in ZioTypes |-> 0]]

\* The flag sets zpool_do_iostat() can set up: a histogram by itself, or the
\* default statistics with latency (-l) and queue (-q) columns added.
FlagSets == {{"IOS_L_HISTO"}} \cup
            {{"IOS_DEFAULT"} \cup f : f \in SUBSET {"IOS_LATENCY", "IOS_QUEUES"}}

IOS_ANYHISTO_M == {"IOS_L_HISTO", "IOS_RQ_HISTO"}

\* calc_default_iostats(): subtract oldvs from newvs.
calc_default_iostats(oldvs, newvs) ==
    [newvs EXCEPT !.vs_ops = [i \in ZioTypes |->
                                 U64Sub(newvs.vs_ops[i], oldvs.vs_ops[i])],
                  !.vs_bytes = [i \in ZioTypes |->
                                 U64Sub(newvs.vs_bytes[i], oldvs.vs_bytes[i])]]

\* calc_and_alloc_stats_ex(): the named arrays of newnv, with the same-indexed
\* entries of oldnv subtracted when oldnv is not NULL.
calc_and_alloc_stats_ex(names, old, new) ==
    [j \in names |->
        [i \in DOMAIN new[1].vsx[j] |->
            IF old # <<>> /\ i \in DOMAIN old[1].vsx[j]
            THEN U64Sub(new[1].vsx[j][i], old[1].vsx[j][i])
            ELSE new[1].vsx[j][i]]]

\* calc_scale without the special case of a histogram over the lifetime of
\* the vdev (a plausible slip: the rate is then extrapolated for histograms).
calc_scale_rate_only(oldvs, newvs, flags) ==
    LET tdelta == newvs.vs_timestamp - oldvs.vs_timestamp
    IN  IF tdelta = 0
        THEN [num |-> 1, den |-> 1]
        ELSE [num |-> NANOSEC, den |-> tdelta]

\* calc_scale without the test for a zero time delta (a plausible slip: the
\* division is then by zero).
calc_scale_unguarded(oldvs, newvs, flags) ==
    LET tdelta == newvs.vs_timestamp - oldvs.vs_timestamp
    IN  IF oldvs.vs_timestamp = 0 /\ flags \cap IOS_ANYHISTO_M # {}
        THEN [num |-> 1, den |-> 1]
        ELSE [num |-> NANOSEC, den |-> tdelta]

\* The scaling factor of print_vdev_stats(), as a fraction: 1 for a histogram
\* over the whole lifetime of the vdev and for a zero time delta, otherwise
\* NANOSEC / tdelta.
calc_scale(oldvs, newvs, flags) ==
    LET tdelta == newvs.vs_timestamp - oldvs.vs_timestamp
    IN  IF oldvs.vs_timestamp = 0 /\ flags \cap IOS_ANYHISTO_M # {}
        THEN [num |-> 1, den |-> 1]
        ELSE IF tdelta = 0
             THEN [num |-> 1, den |-> 1]
             ELSE [num |-> NANOSEC, den |-> tdelta]

\* No statistics computed (a part the flags did not ask for).
NoStats == [j \in {} |-> <<>>]

HistoIdle ==
    /\ histo = <<>>
    /\ histo_avg = <<>>

NwIdle ==
    /\ nw_cmd = "idle"
    /\ nw_root = <<>>
    /\ nw_poolname_len = 0
    /\ nw_width = <<>>

EstIdle ==
    /\ est_kind = "idle"
    /\ est_in = <<>>
    /\ est_out = <<>>

IoIdle ==
    /\ io_list = <<>>
    /\ io_phase = "idle"
    /\ io_cursor = 0
    /\ io_iter = 0
    /\ io_gone = {}
    /\ io_log = {}

DiskIdle ==
    /\ dk_pc = "idle"
    /\ dk_bdev = 0
    /\ dk_timeout = 0
    /\ dk_elapsed = 0
    /\ dk_removed = FALSE
    /\ dk_attempts = 0
    /\ dk_prev = 0
    /\ dk_ret = -1
    /\ dk_zio = <<>>
    /\ dk_nzio = 0

AccIdle ==
    /\ wd_log = {}
    /\ zhp_count = 0
    /\ m_zhp = 0
    /\ w_zhp = 0

ExitIdle ==
    /\ ex_in = <<>>
    /\ ex_pc = "idle"
    /\ ex_ret = 0
    /\ ex_code = -1
    /\ ex_kind = "none"

VbioIdle ==
    /\ vb_1arg = FALSE
    /\ vb_nbios = 0
    /\ vb_pc = "idle"
    /\ vb_i = 0
    /\ vb_ref = 0
    /\ vb_error = 0
    /\ vb_bio = <<>>
    /\ vb_freed = 0
    /\ vb_last = "none"
    /\ vb_uaf = FALSE
    /\ vb_first = 0
    /\ vb_zio = [io_error |-> 0, returned |-> 0]

WlIdle ==
    /\ wl_enabled = {}
    /\ wl_active = {}
    /\ wl_pc = "idle"
    /\ wl_i = 0
    /\ wl_any_waited = FALSE
    /\ wl_missing = FALSE
    /\ wl_error = 0
    /\ wl_idle_seen = {}
    /\ wl_owed = {}

RoIdle ==
    /\ ro_writer = FALSE
    /\ ro_readers = {}
    /\ ro_bdev = 0
    /\ ro_released = {}
    /\ ro_handles = 0
    /\ ro_pc = "idle"
    /\ ro_local = 0
    /\ ro_reopens = 0
    /\ ro_zio = <<>>
    /\ ro_stale = FALSE

GetIdle ==
    /\ gt_argv = <<>>
    /\ gt_pc = "idle"
    /\ gt_type = "ZFS_TYPE_POOL"
    /\ gt_names = <<>>
    /\ gt_count = 0
    /\ gt_vid = 0
    /\ gt_reported = <<>>
    /\ gt_oob = FALSE

IostatIdle ==
    /\ cb_flags = {}
    /\ oldnv = <<>>
    /\ newnv = <<>>
    /\ calc = <<>>
    /\ scale = [num |-> 0, den |-> 0]
    /\ ios_pc = "idle"

BlkioIdle ==
    /\ vdev_tsd = <<>>
    /\ zios = <<>>
    /\ vbr = <<>>
    /\ vbt_lock = <<>>
    /\ blkioq = <<>>
    /\ vbt_pc = <<>>
    /\ completion = <<>>
    /\ blk_panic = FALSE

WaitIdle ==
    /\ wd_should_exit = FALSE
    /\ wd_mutex = "free"
    /\ w_pc = "idle"
    /\ w_ret = 0
    /\ w_rows = 0
    /\ w_exit = "none"
    /\ m_pc = "idle"
    /\ m_error = 0

StatusIdle ==
    /\ st_cmd = "idle"
    /\ st_root = <<>>
    /\ st_oldroot = <<>>
    /\ st_cb = <<>>
    /\ st_out = <<>>
    /\ st_pc = "idle"

TrimIdle ==
    /\ trim_vs = <<>>
    /\ trim_verbose = FALSE
    /\ trim_out = <<>>
    /\ trim_pc = "idle"

\* print_iostat() hands print_vdev_stats() the new snapshot and the old one,
\* or NULL for the old one in the first iteration.  Snapshot times come from
\* a monotonic clock, so the old one is never later than the new one.
InitIostat ==
    /\ cb_flags \in FlagSets
    /\ newnv \in {<<n>> : n \in VdevNvlist}
    /\ oldnv \in {<<>>} \cup {<<o>> : o \in VdevNvlist}
    /\ oldnv # <<>> => oldnv[1].vs.vs_timestamp <= newnv[1].vs.vs_timestamp
    /\ calc = <<>>
    /\ scale = [num |-> 0, den |-> 0]
    /\ ios_pc = "call"
    /\ TrimIdle
    /\ StatusIdle
    /\ WaitIdle
    /\ BlkioIdle
    /\ HistoIdle
    /\ NwIdle
    /\ EstIdle
    /\ IoIdle
    /\ DiskIdle
    /\ AccIdle
    /\ ExitIdle
    /\ VbioIdle
    /\ WlIdle
    /\ RoIdle
    /\ GetIdle

\* print_vdev_stats() on one vdev: the scaling factor and the deltas of the
\* statistics the flags select.
print_vdev_stats ==
    /\ ios_pc = "call"
    /\ LET oldvs == IF oldnv # <<>> THEN oldnv[1].vs ELSE zerovs
           newvs == newnv[1].vs
       IN  /\ scale' = calc_scale(oldvs, newvs, cb_flags)
           /\ calc' = [calcvs |-> IF "IOS_DEFAULT" \in cb_flags
                                  THEN <<calc_default_iostats(oldvs, newvs)>>
                                  ELSE <<>>,
                       latency |-> IF "IOS_LATENCY" \in cb_flags
                                   THEN calc_and_alloc_stats_ex(LatencyNames,
                                            oldnv, newnv)
                                   ELSE NoStats,
                       queues |-> IF "IOS_QUEUES" \in cb_flags
                                  THEN calc_and_alloc_stats_ex(QueueNames,
                                           <<>>, newnv)
                                  ELSE NoStats,
                       histo |-> IF cb_flags \cap IOS_ANYHISTO_M # {}
                                 THEN calc_and_alloc_stats_ex(HistoNames,
                                          oldnv, newnv)
                                 ELSE NoStats]
    /\ ios_pc' = "done"
    /\ UNCHANGED <<cb_flags, oldnv, newnv>>
    /\ UNCHANGED <<trimVars, statusVars, waitVars, blkioVars, histoVars, nwVars, estVars, ioVars, diskVars, accVars, exitVars, vbioVars, wlVars, roVars, getVars>>

NextIostat == print_vdev_stats

SpecIostat == InitIostat /\ [][NextIostat]_vars

\* The scaling factor is exactly 1.
ScaleIsOne == scale.num = scale.den

\* Every delta the call computed equals the value of the new snapshot.
DeltaIsNew ==
    /\ calc.calcvs # <<>> =>
          /\ calc.calcvs[1].vs_ops = newnv[1].vs.vs_ops
          /\ calc.calcvs[1].vs_bytes = newnv[1].vs.vs_bytes
    /\ \A j \in DOMAIN calc.latency : calc.latency[j] = newnv[1].vsx[j]
    /\ \A j \in DOMAIN calc.histo : calc.histo[j] = newnv[1].vsx[j]

\* C1, as stated: with no old snapshot every cumulative counter delta equals
\* the new value and the scale factor is exactly 1, whatever flags are
\* selected.
C1_Original ==
    (ios_pc = "done" /\ oldnv = <<>>) => (DeltaIsNew /\ ScaleIsOne)

\* C1, amended: with no old snapshot every cumulative counter delta equals the
\* new value whatever flags are selected; the scale factor is exactly 1 when a
\* histogram is selected, and it is NANOSEC divided by the timestamp of the
\* new snapshot (the rate over the lifetime of the vdev) when the default,
\* latency or queue statistics are selected.
C1_NoOldSnapshot ==
    (ios_pc = "done" /\ oldnv = <<>>) =>
        /\ DeltaIsNew
        /\ cb_flags \cap IOS_ANYHISTO_M # {} => scale = [num |-> 1, den |-> 1]
        /\ cb_flags \cap IOS_ANYHISTO_M = {} =>
              scale = [num |-> NANOSEC, den |-> newnv[1].vs.vs_timestamp]

\* C1 witnesses: a first sample with the default statistics whose scale factor
\* is not 1.
C1_Witness ==
    /\ ios_pc = "done"
    /\ oldnv = <<>>
    /\ "IOS_DEFAULT" \in cb_flags
    /\ calc.calcvs[1].vs_ops["ZIO_TYPE_READ"] = MaxCounter
    /\ ~ScaleIsOne

\* C12: when the old and the new snapshot of the vdev carry the same
\* timestamp, the scaling factor is exactly 1, and the divisor of the scaling
\* factor is never zero.
C12_ScaleAtZeroElapsed ==
    ios_pc = "done" =>
        /\ scale.den # 0
        /\ (oldnv # <<>> /\
            oldnv[1].vs.vs_timestamp = newnv[1].vs.vs_timestamp) =>
              scale = [num |-> 1, den |-> 1]

\* C12 witness: the rate columns of a vdev whose two snapshots carry the same
\* timestamp.
C12_Witness ==
    /\ ios_pc = "done"
    /\ oldnv # <<>>
    /\ oldnv[1].vs.vs_timestamp = newnv[1].vs.vs_timestamp
    /\ "IOS_DEFAULT" \in cb_flags
    /\ scale = [num |-> 1, den |-> 1]

\* Every counter of the new snapshot is at least the same counter of the old.
NewAtLeastOld ==
    /\ oldnv # <<>>
    /\ \A i \in ZioTypes :
          /\ newnv[1].vs.vs_ops[i] >= oldnv[1].vs.vs_ops[i]
          /\ newnv[1].vs.vs_bytes[i] >= oldnv[1].vs.vs_bytes[i]
    /\ \A j \in DOMAIN newnv[1].vsx : \A i \in DOMAIN newnv[1].vsx[j] :
          newnv[1].vsx[j][i] >= oldnv[1].vsx[j][i]

\* C10: when every counter of the new snapshot is at least the same counter
\* of the old one, every field of the delta (ops, bytes, every bucket of the
\* extended statistics) is the true difference new - old, which is >= 0: no
\* unsigned wrap-around.
C10_DeltaNonNegative ==
    (ios_pc = "done" /\ NewAtLeastOld) =>
        /\ calc.calcvs # <<>> => \A i \in ZioTypes :
              /\ calc.calcvs[1].vs_ops[i] =
                    newnv[1].vs.vs_ops[i] - oldnv[1].vs.vs_ops[i]
              /\ calc.calcvs[1].vs_bytes[i] =
                    newnv[1].vs.vs_bytes[i] - oldnv[1].vs.vs_bytes[i]
        /\ \A j \in DOMAIN calc.latency : \A i \in DOMAIN calc.latency[j] :
              calc.latency[j][i] = newnv[1].vsx[j][i] - oldnv[1].vsx[j][i]
        /\ \A j \in DOMAIN calc.histo : \A i \in DOMAIN calc.histo[j] :
              calc.histo[j][i] = newnv[1].vsx[j][i] - oldnv[1].vsx[j][i]

\* C10 witness: a delta of the default and latency statistics in which a
\* counter grew and another stayed.
C10_Witness ==
    /\ ios_pc = "done"
    /\ NewAtLeastOld
    /\ {"IOS_DEFAULT", "IOS_LATENCY"} \subseteq cb_flags
    /\ calc.calcvs[1].vs_ops["ZIO_TYPE_READ"] = MaxCounter
    /\ oldnv[1].vs.vs_bytes["ZIO_TYPE_WRITE"] = MaxCounter
    /\ calc.latency["vdev_tot_r_lat_histo"][1] = MaxCounter


(***************************************************************************)
(* zpool status: the TRIM status of a leaf (zpool_common.c)                *)
(***************************************************************************)
\* vdev_trim_state_t
TrimStates == {"VDEV_TRIM_NONE", "VDEV_TRIM_ACTIVE", "VDEV_TRIM_CANCELED",
               "VDEV_TRIM_SUSPENDED", "VDEV_TRIM_COMPLETE"}

\* The TRIM fields of vdev_stat_t that print_status_trim() reads.
TrimStat == [vs_trim_state : TrimStates,
             vs_trim_notsup : {0, 1},
             vs_scan_removing : {0, 1},
             vs_trim_bytes_done : 0..MaxCounter,
             vs_trim_bytes_est : 0..MaxCounter]

\* The phase text of the switch on vs_trim_state.
trim_phase_text(state) ==
    CASE state = "VDEV_TRIM_SUSPENDED" -> "suspended, started at"
      [] state = "VDEV_TRIM_ACTIVE" -> "started at"
      [] state = "VDEV_TRIM_COMPLETE" -> "completed at"

\* "  (%d%% trimmed%s)": the percentage and the phase text.
trim_progress(vs) ==
    LET trim_pct == IF vs.vs_trim_state # "VDEV_TRIM_COMPLETE"
                    THEN (vs.vs_trim_bytes_done * 100) \div
                             (vs.vs_trim_bytes_est + 1)
                    ELSE 100
    IN  <<"% trimmed", trim_pct, trim_phase_text(vs.vs_trim_state)>>

\* print_status_trim with the not-supported flag tested first (the order the
\* flag would need to override the percent and state text).
print_status_trim_notsup_first(vs, verbose) ==
    IF verbose
    THEN IF vs.vs_trim_notsup # 0
         THEN <<"trim unsupported">>
         ELSE IF /\ vs.vs_trim_state \in {"VDEV_TRIM_ACTIVE",
                        "VDEV_TRIM_SUSPENDED", "VDEV_TRIM_COMPLETE"}
                 /\ vs.vs_scan_removing = 0
              THEN trim_progress(vs)
              ELSE <<"untrimmed">>
    ELSE IF vs.vs_trim_state = "VDEV_TRIM_ACTIVE"
         THEN <<"trimming">>
         ELSE <<>>

\* print_status_trim(): what is printed after the row of a leaf.
print_status_trim(vs, verbose) ==
    IF verbose
    THEN IF /\ vs.vs_trim_state \in {"VDEV_TRIM_ACTIVE",
                   "VDEV_TRIM_SUSPENDED", "VDEV_TRIM_COMPLETE"}
            /\ vs.vs_scan_removing = 0
         THEN trim_progress(vs)
         ELSE IF vs.vs_trim_notsup # 0
              THEN <<"trim unsupported">>
              ELSE <<"untrimmed">>
    ELSE IF vs.vs_trim_state = "VDEV_TRIM_ACTIVE"
         THEN <<"trimming">>
         ELSE <<>>

\* print_status_config() reaches a leaf (children == 0) with the statistics
\* the kernel reported for it.
InitTrim ==
    /\ trim_vs \in TrimStat
    /\ trim_verbose \in BOOLEAN
    /\ trim_out = <<>>
    /\ trim_pc = "call"
    /\ IostatIdle
    /\ StatusIdle
    /\ WaitIdle
    /\ BlkioIdle
    /\ HistoIdle
    /\ NwIdle
    /\ EstIdle
    /\ IoIdle
    /\ DiskIdle
    /\ AccIdle
    /\ ExitIdle
    /\ VbioIdle
    /\ WlIdle
    /\ RoIdle
    /\ GetIdle

\* The call print_status_trim(vs, cb->cb_print_vdev_trim).
PrintStatusTrim ==
    /\ trim_pc = "call"
    /\ trim_out' = print_status_trim(trim_vs, trim_verbose)
    /\ trim_pc' = "done"
    /\ UNCHANGED <<trim_vs, trim_verbose>>
    /\ UNCHANGED <<iostatVars, statusVars, waitVars, blkioVars, histoVars, nwVars, estVars, ioVars, diskVars, accVars, exitVars, vbioVars, wlVars, roVars, getVars>>

NextTrim == PrintStatusTrim

SpecTrim == InitTrim /\ [][NextTrim]_vars

\* The trim states named by the claim: None/Untrimmed, Active, Suspended,
\* Complete.
ClaimedTrimStates == {"VDEV_TRIM_NONE", "VDEV_TRIM_ACTIVE",
                      "VDEV_TRIM_SUSPENDED", "VDEV_TRIM_COMPLETE"}

\* C3, as stated: for a leaf whose not-supported flag is set, the verbose trim
\* status is the fixed "unsupported" message, with no percent or state text,
\* in every trim state.
C3_Original ==
    (/\ trim_pc = "done"
     /\ trim_verbose
     /\ trim_vs.vs_trim_notsup = 1
     /\ trim_vs.vs_trim_state \in ClaimedTrimStates)
        => trim_out = <<"trim unsupported">>

\* The leaf has trim progress to show: its trim is active, suspended or
\* complete and it is not being removed.
HasTrimProgress ==
    /\ trim_vs.vs_trim_state \in {"VDEV_TRIM_ACTIVE", "VDEV_TRIM_SUSPENDED",
                                  "VDEV_TRIM_COMPLETE"}
    /\ trim_vs.vs_scan_removing = 0

\* C3, amended: for a leaf whose not-supported flag is set, the verbose trim
\* status is the fixed "unsupported" message, with no percent or state text,
\* when the trim state is None/Untrimmed (or Canceled) or the vdev is being
\* removed; when the trim is Active, Suspended or Complete on a vdev that is
\* not being removed, the percent and the state text are shown and the flag
\* is ignored.
C3_TrimUnsupported ==
    (trim_pc = "done" /\ trim_verbose /\ trim_vs.vs_trim_notsup = 1) =>
        /\ ~HasTrimProgress => trim_out = <<"trim unsupported">>
        /\ HasTrimProgress =>
              /\ Len(trim_out) = 3
              /\ trim_out[1] = "% trimmed"

\* C3 witness: an active trim on a leaf that reports trim as not supported,
\* printed with its percentage.
C3_Witness ==
    /\ trim_pc = "done"
    /\ trim_verbose
    /\ trim_vs.vs_trim_notsup = 1
    /\ trim_vs.vs_trim_state = "VDEV_TRIM_ACTIVE"
    /\ trim_out = <<"% trimmed", 50, "started at">>

(***************************************************************************)
(* zpool status: the configuration rows (zpool_common.c)                   *)
(***************************************************************************)
\* Bound of the vdev trees: top-level vdevs per pool.
MaxTop == 2

\* The sequences over S of length lo..hi.
SeqsBetween(S, lo, hi) == UNION {[1..k -> S] : k \in lo..hi}

\* vdev_stat_t as the status walk reads it.  Representatives: a clean leaf,
\* an ONLINE leaf with checksum errors, an ONLINE leaf with slow I/Os, and a
\* faulted leaf.
vs_clean ==
    [vs_state |-> "VDEV_STATE_HEALTHY", vs_read_errors |-> 0,
     vs_write_errors |-> 0, vs_checksum_errors |-> 0, vs_slow_ios |-> 0]

LeafStats ==
    {vs_clean,
     [vs_clean EXCEPT !.vs_checksum_errors = MaxCounter],
     [vs_clean EXCEPT !.vs_slow_ios = MaxCounter],
     [vs_clean EXCEPT !.vs_state = "VDEV_STATE_FAULTED"]}

\* The nvlist of a vdev: ZPOOL_CONFIG_TYPE, _IS_LOG, _IS_HOLE,
\* _ALLOCATION_BIAS (absent is <<>>), _VDEV_STATS (absent is <<>>), and the
\* arrays _CHILDREN, _L2CACHE and _SPARES (absent is <<>>; only the root
\* carries the last two).  The kernel writes is_log on every top-level vdev;
\* on the vdevs below, where the key is absent, 0 is the value the readers'
\* initialised locals keep.
VdevNv(type, is_log, is_hole, bias, vs, children) ==
    [type |-> type, is_log |-> is_log, is_hole |-> is_hole,
     alloc_bias |-> bias, vdev_stats |-> <<vs>>, children |-> children,
     l2cache |-> <<>>, spares |-> <<>>]

DiskNv(vs) == VdevNv("disk", 0, 0, <<>>, vs, <<>>)

\* The state the kernel reports for an interior vdev: degraded as soon as a
\* child is not healthy.
InteriorStat(children) ==
    IF \A c \in DOMAIN children :
           children[c].vdev_stats[1].vs_state = "VDEV_STATE_HEALTHY"
    THEN vs_clean
    ELSE [vs_clean EXCEPT !.vs_state = "VDEV_STATE_DEGRADED"]

MirrorNv(leaves) == VdevNv("mirror", 0, 0, <<>>, InteriorStat(leaves), leaves)

RootNv(tops, l2cache, spares) ==
    [VdevNv("root", 0, 0, <<>>, InteriorStat(tops), tops)
        EXCEPT !.l2cache = l2cache, !.spares = spares]

\* The normal-class top-level vdevs of the pools modelled: a disk, or a
\* two-way mirror of disks.
HealthTops ==
    {DiskNv(vs) : vs \in LeafStats} \cup
    {MirrorNv(l) : l \in [1..2 -> {DiskNv(vs) : vs \in LeafStats}]}

\* The health check with the state as its only criterion besides slow I/Os.
vdev_health_check_cb_state_only(nv, cb) ==
    IF nv.vdev_stats = <<>>
    THEN 1
    ELSE IF nv.vdev_stats[1].vs_state # "VDEV_STATE_HEALTHY"
         THEN 1
         ELSE IF cb.cb_print_slow_ios /\ nv.vdev_stats[1].vs_slow_ios # 0
              THEN 1
              ELSE 0

\* vdev_health_check_cb(): 0 if the vdev is healthy, 1 otherwise.
vdev_health_check_cb(nv, cb) ==
    IF nv.vdev_stats = <<>>
    THEN 1
    ELSE LET vs == nv.vdev_stats[1]
         IN  IF \/ vs.vs_checksum_errors # 0
                \/ vs.vs_read_errors # 0
                \/ vs.vs_write_errors # 0
                \/ vs.vs_state # "VDEV_STATE_HEALTHY"
             THEN 1
             ELSE IF cb.cb_print_slow_ios /\ vs.vs_slow_ios # 0
                  THEN 1
                  ELSE 0

\* for_each_vdev_in_nvlist(nv, vdev_health_check_cb, cb) of libzfs: the
\* callback is called for each leaf beneath nv and the results are or-ed.
RECURSIVE for_each_vdev_in_nvlist(_, _)
for_each_vdev_in_nvlist(nv, cb) ==
    IF nv.children = <<>>
    THEN vdev_health_check_cb(nv, cb)
    ELSE IF \E c \in DOMAIN nv.children :
                for_each_vdev_in_nvlist(nv.children[c], cb) # 0
         THEN 1
         ELSE 0

\* What a render prints: the header of a section, or the row of a vdev of a
\* section.  A vdev is named by its path of indexes, from the array of the
\* root its section lists (children, l2cache or spares).
Header(section) ==
    [kind |-> "header", section |-> section, name |-> <<>>, depth |-> 0]

Row(section, name, depth) ==
    [kind |-> "row", section |-> section, name |-> name, depth |-> depth]

\* The children loop of print_status_config(): logs, holes and vdevs with an
\* allocation bias are not printed there.
status_skips_child_log_hole_only(child) ==
    child.is_log # 0 \/ child.is_hole # 0

status_skips_child(child) ==
    \/ child.is_log # 0 \/ child.is_hole # 0
    \/ child.alloc_bias # <<>>

\* print_status_config(): the rows printed for nv and the normal-class
\* vdevs beneath it, in the section of the caller.
RECURSIVE print_status_config(_, _, _, _, _)
RECURSIVE print_status_children(_, _, _, _, _, _)
print_status_children(cb, nv, name, depth, section, c) ==
    IF c > Len(nv.children)
    THEN <<>>
    ELSE LET child == nv.children[c]
             rows == IF status_skips_child(child)
                     THEN <<>>
                     ELSE print_status_config(cb, child, Append(name, c),
                              depth + 2, section)
         IN  rows \o print_status_children(cb, nv, name, depth, section, c + 1)

\* print_status_config() pruning at every depth, the root included.
print_status_config_any_depth(cb, nv, name, depth, section) ==
    IF nv.type = "indirect"
    THEN <<>>
    ELSE IF /\ cb.cb_print_unhealthy
            /\ for_each_vdev_in_nvlist(nv, cb) = 0
         THEN <<>>
         ELSE <<Row(section, name, depth)>> \o
              print_status_children(cb, nv, name, depth, section, 1)

print_status_config(cb, nv, name, depth, section) ==
    IF nv.type = "indirect"
    THEN <<>>
    ELSE IF /\ cb.cb_print_unhealthy
            /\ depth > 0
            /\ for_each_vdev_in_nvlist(nv, cb) = 0
         THEN <<>>
         ELSE <<Row(section, name, depth)>> \o
              print_status_children(cb, nv, name, depth, section, 1)

\* print_import_config(): the rows printed for nv and the normal-class
\* vdevs beneath it, then the cache and spares arrays of nv.
RECURSIVE print_import_config(_, _, _, _, _)
RECURSIVE print_import_children(_, _, _, _, _, _)
print_import_children(cb, nv, name, depth, section, c) ==
    IF c > Len(nv.children)
    THEN <<>>
    ELSE LET child == nv.children[c]
             rows == IF child.is_log # 0
                     THEN <<>>
                     ELSE IF child.alloc_bias # <<>>
                          THEN <<>>
                          ELSE print_import_config(cb, child, Append(name, c),
                                   depth + 2, section)
         IN  rows \o print_import_children(cb, nv, name, depth, section, c + 1)

print_import_config(cb, nv, name, depth, section) ==
    IF nv.type = "missing" \/ nv.type = "hole"
    THEN <<>>
    ELSE <<Row(section, name, depth)>> \o
         IF nv.children = <<>>
         THEN <<>>
         ELSE print_import_children(cb, nv, name, depth, section, 1) \o
              (IF nv.l2cache # <<>>
               THEN <<Header("cache")>> \o
                    [i \in DOMAIN nv.l2cache |-> Row("cache", <<i>>, 2)]
               ELSE <<>>) \o
              (IF nv.spares # <<>>
               THEN <<Header("spares")>> \o
                    [i \in DOMAIN nv.spares |-> Row("spares", <<i>>, 2)]
               ELSE <<>>)

\* print_class_vdevs(): the section of one class, from child c on; printed
\* tells whether the header of the section is out already.
RECURSIVE print_class_vdevs_from(_, _, _, _, _)
print_class_vdevs_from(cb, nv, class, c, printed) ==
    IF c > Len(nv.children)
    THEN <<>>
    ELSE LET child == nv.children[c]
             bias == IF child.is_log # 0
                     THEN <<"logs">>
                     ELSE child.alloc_bias
             skip == \/ bias = <<>>
                     \/ bias[1] # class
                     \/ (child.is_log = 0 /\ child.type = "indirect")
         IN  IF skip
             THEN print_class_vdevs_from(cb, nv, class, c + 1, printed)
             ELSE (IF ~printed THEN <<Header(class)>> ELSE <<>>) \o
                  (IF cb.cb_print_status
                   THEN print_status_config(cb, child, <<c>>, 2, class)
                   ELSE print_import_config(cb, child, <<c>>, 2, class)) \o
                  print_class_vdevs_from(cb, nv, class, c + 1, TRUE)

\* print_class_vdevs() printing the header up front (a plausible slip: the
\* header then shows for a class the pool does not have).
print_class_vdevs_eager(cb, nv, class) ==
    <<Header(class)>> \o print_class_vdevs_from(cb, nv, class, 1, TRUE)

print_class_vdevs(cb, nv, class) ==
    IF nv.children = <<>>
    THEN <<>>
    ELSE print_class_vdevs_from(cb, nv, class, 1, FALSE)

\* The concatenation of the rows f[1], f[2], ...
RECURSIVE Flatten(_)
Flatten(f) == IF f = <<>> THEN <<>> ELSE Head(f) \o Flatten(Tail(f))

\* print_l2cache() and print_spares() of zpool status.
print_l2cache(cb, l2cache) ==
    IF Len(l2cache) = 0
    THEN <<>>
    ELSE <<Header("cache")>> \o
         Flatten([i \in DOMAIN l2cache |->
                     print_status_config(cb, l2cache[i], <<i>>, 2, "cache")])

print_spares(cb, spares) ==
    IF Len(spares) = 0
    THEN <<>>
    ELSE <<Header("spares")>> \o
         Flatten([i \in DOMAIN spares |->
                     print_status_config(cb, spares[i], <<i>>, 2, "spares")])

StatusCb ==
    [cb_print_status : {TRUE}, cb_print_unhealthy : BOOLEAN,
     cb_print_slow_ios : BOOLEAN]

\* status_callback() has the configuration of a pool and the options of the
\* command line.
InitHealth ==
    /\ st_cmd = "status"
    /\ st_root \in {<<RootNv(tops, <<>>, <<>>)>> :
                       tops \in SeqsBetween(HealthTops, 1, MaxTop)}
    /\ st_oldroot = <<>>
    /\ st_cb \in {<<cb>> : cb \in StatusCb}
    /\ st_out = <<>>
    /\ st_pc = "call"
    /\ IostatIdle
    /\ TrimIdle
    /\ WaitIdle
    /\ BlkioIdle
    /\ HistoIdle
    /\ NwIdle
    /\ EstIdle
    /\ IoIdle
    /\ DiskIdle
    /\ AccIdle
    /\ ExitIdle
    /\ VbioIdle
    /\ WlIdle
    /\ RoIdle
    /\ GetIdle

\* status_callback(): the rows of the pool, then the dedup, special and logs
\* sections, then the cache and the spares.
status_callback ==
    /\ st_pc = "call"
    /\ st_cmd = "status"
    /\ st_out' = print_status_config(st_cb[1], st_root[1], <<>>, 0, "normal") \o
                 print_class_vdevs(st_cb[1], st_root[1], "dedup") \o
                 print_class_vdevs(st_cb[1], st_root[1], "special") \o
                 print_class_vdevs(st_cb[1], st_root[1], "logs") \o
                 print_l2cache(st_cb[1], st_root[1].l2cache) \o
                 print_spares(st_cb[1], st_root[1].spares)
    /\ st_pc' = "done"
    /\ UNCHANGED <<st_cmd, st_root, st_oldroot, st_cb>>
    /\ UNCHANGED <<iostatVars, trimVars, waitVars, blkioVars, histoVars, nwVars, estVars, ioVars, diskVars, accVars, exitVars, vbioVars, wlVars, roVars, getVars>>

NextHealth == status_callback

SpecHealth == InitHealth /\ [][NextHealth]_vars

\* Pools with class vdevs, cache devices and spares for zpool status -e:
\* each top-level vdev is a disk of the normal, the dedup, the special or
\* the log class, clean or faulted; the cache and the spares hold no device
\* or one, clean or faulted.
HealthStats == {vs_clean, [vs_clean EXCEPT !.vs_state = "VDEV_STATE_FAULTED"]}

UnhealthyTops ==
    {VdevNv("disk", 0, 0, b, vs, <<>>) :
        b \in {<<>>, <<"dedup">>, <<"special">>}, vs \in HealthStats} \cup
    {VdevNv("disk", 1, 0, <<>>, vs, <<>>) : vs \in HealthStats}

UnhealthyAux == {<<>>} \cup {<<DiskNv(vs)>> : vs \in HealthStats}

InitUnhealthy ==
    /\ st_cmd = "status"
    /\ st_root \in {<<RootNv(tops, l2cache, spares)>> :
                       tops \in SeqsBetween(UnhealthyTops, 1, MaxTop),
                       l2cache \in UnhealthyAux, spares \in UnhealthyAux}
    /\ st_oldroot = <<>>
    /\ st_cb \in {<<cb>> : cb \in StatusCb}
    /\ st_out = <<>>
    /\ st_pc = "call"
    /\ IostatIdle
    /\ TrimIdle
    /\ WaitIdle
    /\ BlkioIdle
    /\ HistoIdle
    /\ NwIdle
    /\ EstIdle
    /\ IoIdle
    /\ DiskIdle
    /\ AccIdle
    /\ ExitIdle
    /\ VbioIdle
    /\ WlIdle
    /\ RoIdle
    /\ GetIdle

SpecUnhealthy == InitUnhealthy /\ [][NextHealth]_vars

\* C29: in status -e no section header is printed unless a vdev row of that
\* section is printed beneath it.
C29_NoHeaderWithoutRow ==
    (st_pc = "done" /\ st_cb[1].cb_print_unhealthy) =>
        \A i \in DOMAIN st_out :
            st_out[i].kind = "header" =>
                /\ i < Len(st_out)
                /\ st_out[i + 1].kind = "row"
                /\ st_out[i + 1].section = st_out[i].section

\* The paths of the non-root vdevs of the pool shown: top-level vdevs and
\* their children.
NonRootPaths ==
    {<<c>> : c \in DOMAIN st_root[1].children} \cup
    UNION {{<<c, k>> : k \in DOMAIN st_root[1].children[c].children} :
              c \in DOMAIN st_root[1].children}

RECURSIVE NodeAt(_, _)
NodeAt(nv, path) ==
    IF path = <<>> THEN nv ELSE NodeAt(nv.children[Head(path)], Tail(path))

RECURSIVE LeavesOf(_)
LeavesOf(nv) ==
    IF nv.children = <<>>
    THEN {nv}
    ELSE UNION {LeavesOf(nv.children[c]) : c \in DOMAIN nv.children}

IsPrefix(p, q) == Len(p) <= Len(q) /\ SubSeq(q, 1, Len(p)) = p

\* No row of the subtree at path of the children array was printed.
Elided(path) ==
    \A i \in DOMAIN st_out :
        ~(/\ st_out[i].kind = "row"
          /\ st_out[i].section \notin {"cache", "spares"}
          /\ IsPrefix(path, st_out[i].name))

\* The row of the vdev at path of the children array was printed.
RowPrinted(path) ==
    \E i \in DOMAIN st_out :
        /\ st_out[i].kind = "row"
        /\ st_out[i].section \notin {"cache", "spares"}
        /\ st_out[i].name = path

\* The health test of the claim as stated: the state, and the slow I/Os when
\* their display is enabled.
StateHealthy(leaf) ==
    /\ leaf.vdev_stats[1].vs_state = "VDEV_STATE_HEALTHY"
    /\ st_cb[1].cb_print_slow_ios => leaf.vdev_stats[1].vs_slow_ios = 0

\* The health test with the error counters.
StateAndErrorsHealthy(leaf) ==
    /\ StateHealthy(leaf)
    /\ leaf.vdev_stats[1].vs_read_errors = 0
    /\ leaf.vdev_stats[1].vs_write_errors = 0
    /\ leaf.vdev_stats[1].vs_checksum_errors = 0

\* C2, as stated: in status -e a non-root subtree is elided entirely if and
\* only if every leaf beneath it has state Healthy and, with slow-I/O display
\* enabled, no slow I/Os; a subtree with a failing leaf is kept.
C2_Original ==
    (st_pc = "done" /\ st_cb[1].cb_print_unhealthy) =>
        \A p \in NonRootPaths :
            LET pass == \A l \in LeavesOf(NodeAt(st_root[1], p)) :
                            StateHealthy(l)
            IN  /\ Elided(p) <=> pass
                /\ ~pass => RowPrinted(p)

\* C2, amended: in status -e a non-root subtree is elided entirely if and
\* only if every leaf beneath it has state Healthy, zero read, write and
\* checksum errors and, with slow-I/O display enabled, no slow I/Os; a
\* subtree with any leaf failing that test is kept (its row is printed) while
\* sibling subtrees whose leaves all pass it are discarded.
C2_HealthPruning ==
    (st_pc = "done" /\ st_cb[1].cb_print_unhealthy) =>
        \A p \in NonRootPaths :
            LET pass == \A l \in LeavesOf(NodeAt(st_root[1], p)) :
                            StateAndErrorsHealthy(l)
            IN  /\ Elided(p) <=> pass
                /\ ~pass => RowPrinted(p)

\* C2 witness: a mirror whose only failing leaf is ONLINE with checksum
\* errors is kept, with that leaf, while its clean sibling leaf and the clean
\* sibling top-level vdev are discarded.
C2_Witness ==
    /\ st_pc = "done"
    /\ st_cb[1].cb_print_unhealthy
    /\ Len(st_root[1].children) = 2
    /\ st_root[1].children[1].type = "mirror"
    /\ st_root[1].children[1].children[1].vdev_stats[1] =
           [vs_clean EXCEPT !.vs_checksum_errors = MaxCounter]
    /\ st_root[1].children[1].children[2].vdev_stats[1] = vs_clean
    /\ st_root[1].children[2] = DiskNv(vs_clean)
    /\ st_out = <<Row("normal", <<>>, 0), Row("normal", <<1>>, 2),
                  Row("normal", <<1, 1>>, 4)>>

\* C22: in status -e the row of the root of the pool is always printed,
\* first and at depth 0, also when every leaf of the pool is healthy.
C22_RootAlwaysShown ==
    (st_pc = "done" /\ st_cb[1].cb_print_unhealthy) =>
        /\ st_out # <<>>
        /\ st_out[1] = Row("normal", <<>>, 0)

\* C22 witness: status -e of a pool of a mirror and a disk with every leaf
\* clean prints the row of the root and nothing else.
C22_Witness ==
    /\ st_pc = "done"
    /\ st_cb[1].cb_print_unhealthy
    /\ Len(st_root[1].children) = 2
    /\ st_root[1].children[1].type = "mirror"
    /\ \A l \in LeavesOf(st_root[1]) : l.vdev_stats[1] = vs_clean
    /\ st_out = <<Row("normal", <<>>, 0)>>

(***************************************************************************)
(* The sections of list -v, iostat -v and the dry run of create, and the   *)
(* pools with class vdevs                                                  *)
(***************************************************************************)
\* zpool_vdev_name() naming an indirect vdev like an interior vdev, with its
\* id when type_id is asked for (a plausible slip: the name is then no longer
\* the fixed one the readers compare with).
zpool_vdev_name_indirect_id(siblings, c, type_id) ==
    LET nv == siblings[c]
    IN  IF nv.type \in {"hole", "missing"}
        THEN [tag |-> nv.type, id |-> <<>>]
        ELSE IF nv.type = "indirect"
             THEN [tag |-> nv.type, id |-> IF type_id THEN <<c>> ELSE <<>>]
             ELSE IF nv.children = <<>>
                  THEN [tag |-> "path", id |-> <<>>]
                  ELSE [tag |-> nv.type, id |-> <<>>]

\* zpool_vdev_name() of libzfs, as far as the readers test its result: a
\* hole, indirect or missing vdev has its type as a fixed name; a leaf is
\* named after its path; an interior vdev is named after its type, with its
\* id when type_id is asked for and a sibling has the same type.
zpool_vdev_name(siblings, c, type_id) ==
    LET nv == siblings[c]
    IN  IF nv.type \in {"hole", "indirect", "missing"}
        THEN [tag |-> nv.type, id |-> <<>>]
        ELSE IF nv.children = <<>>
             THEN [tag |-> "path", id |-> <<>>]
             ELSE IF /\ type_id
                     /\ \E d \in DOMAIN siblings :
                            d # c /\ siblings[d].type = nv.type
                  THEN [tag |-> nv.type, id |-> <<c>>]
                  ELSE [tag |-> nv.type, id |-> <<>>]

\* The name strcmp(name, VDEV_TYPE_INDIRECT) == 0 matches.
VDEV_TYPE_INDIRECT == [tag |-> "indirect", id |-> <<>>]

\* class_name[] of zpool_list.c and zpool_iostat.c.
class_name == <<"dedup", "special", "logs">>

\* print_list_stats(): name is <<>> for NULL.
RECURSIVE print_list_stats(_, _, _, _, _)
RECURSIVE print_list_normal(_, _, _, _, _)
RECURSIVE print_list_class(_, _, _, _, _, _)
print_list_normal(nv, path, depth, section, c) ==
    IF c > Len(nv.children)
    THEN <<>>
    ELSE LET child == nv.children[c]
             rows == IF child.is_hole # 0
                     THEN <<>>
                     ELSE IF child.is_log # 0
                          THEN <<>>
                          ELSE IF child.alloc_bias # <<>>
                               THEN <<>>
                               ELSE print_list_stats(child,
                                        <<zpool_vdev_name(nv.children, c, TRUE)>>,
                                        Append(path, c), depth + 2, section)
         IN  rows \o print_list_normal(nv, path, depth, section, c + 1)

print_list_class(nv, path, depth, class, c, printed) ==
    IF c > Len(nv.children)
    THEN <<>>
    ELSE LET child == nv.children[c]
             bias == IF child.is_log # 0
                     THEN <<"logs">>
                     ELSE child.alloc_bias
             skip == \/ bias = <<>>
                     \/ bias[1] # class
                     \/ (child.is_log = 0 /\ child.type = "indirect")
         IN  IF skip
             THEN print_list_class(nv, path, depth, class, c + 1, printed)
             ELSE (IF ~printed THEN <<Header(class)>> ELSE <<>>) \o
                  print_list_stats(child,
                      <<zpool_vdev_name(nv.children, c, TRUE)>>,
                      Append(path, c), depth + 2, class) \o
                  print_list_class(nv, path, depth, class, c + 1, TRUE)

print_list_stats(nv, name, path, depth, section) ==
    IF name # <<>> /\ name[1] = VDEV_TYPE_INDIRECT
    THEN <<>>
    ELSE (IF name # <<>> THEN <<Row(section, path, depth)>> ELSE <<>>) \o
         IF nv.children = <<>>
         THEN <<>>
         ELSE print_list_normal(nv, path, depth, section, 1) \o
              Flatten([n \in DOMAIN class_name |->
                  print_list_class(nv, path, depth, class_name[n], 1, FALSE)]) \o
              (IF Len(nv.l2cache) > 0
               THEN <<Header("cache")>> \o
                    Flatten([i \in DOMAIN nv.l2cache |->
                        print_list_stats(nv.l2cache[i],
                            <<zpool_vdev_name(nv.l2cache, i, FALSE)>>,
                            <<i>>, depth + 2, "cache")])
               ELSE <<>>) \o
              (IF Len(nv.spares) > 0
               THEN <<Header("spare")>> \o
                    Flatten([i \in DOMAIN nv.spares |->
                        print_list_stats(nv.spares[i],
                            <<zpool_vdev_name(nv.spares, i, FALSE)>>,
                            <<i>>, depth + 2, "spare")])
               ELSE <<>>)

\* MIN with the loop bound one short (a plausible slip: the last common
\* child is then left out).
MIN_one_short(a, b) == IF a < b THEN a - 1 ELSE b - 1

\* MIN(oldchildren, children) of print_vdev_stats().
MIN(a, b) == IF a < b THEN a ELSE b

\* The rows of print_vdev_stats() with cb_verbose set and no vdev named on
\* the command line: old is oldnv, <<>> for NULL.  children is the number of
\* children the loops walk.
RECURSIVE print_vdev_stats_rows(_, _, _, _, _, _)
RECURSIVE print_iostat_normal(_, _, _, _, _, _, _)
RECURSIVE print_iostat_class(_, _, _, _, _, _, _, _)
print_iostat_normal(old, nv, children, path, depth, section, c) ==
    IF c > children
    THEN <<>>
    ELSE LET child == nv.children[c]
             rows == IF child.is_hole # 0 \/ child.is_log # 0
                     THEN <<>>
                     ELSE IF child.alloc_bias # <<>>
                          THEN <<>>
                          ELSE print_vdev_stats_rows(
                                   IF old # <<>>
                                   THEN <<old[1].children[c]>>
                                   ELSE <<>>,
                                   child,
                                   zpool_vdev_name(nv.children, c, TRUE),
                                   Append(path, c), depth + 2, section)
         IN  rows \o print_iostat_normal(old, nv, children, path, depth,
                                         section, c + 1)

print_iostat_class(old, nv, children, path, depth, class, c, printed) ==
    IF c > children
    THEN <<>>
    ELSE LET child == nv.children[c]
             bias == IF child.is_log # 0
                     THEN <<"logs">>
                     ELSE child.alloc_bias
             skip == \/ bias = <<>>
                     \/ bias[1] # class
                     \/ (child.is_log = 0 /\ child.type = "indirect")
         IN  IF skip
             THEN print_iostat_class(old, nv, children, path, depth, class,
                                     c + 1, printed)
             ELSE (IF ~printed THEN <<Header(class)>> ELSE <<>>) \o
                  print_vdev_stats_rows(
                      IF old # <<>> THEN <<old[1].children[c]>> ELSE <<>>,
                      child, zpool_vdev_name(nv.children, c, TRUE),
                      Append(path, c), depth + 2, class) \o
                  print_iostat_class(old, nv, children, path, depth, class,
                                     c + 1, TRUE)

print_vdev_stats_rows(old, nv, name, path, depth, section) ==
    IF name = VDEV_TYPE_INDIRECT
    THEN <<>>
    ELSE <<Row(section, path, depth)>> \o
         IF nv.children = <<>>
         THEN <<>>
         ELSE IF old # <<>> /\ old[1].children = <<>>
         THEN <<>>
         ELSE LET children == IF old # <<>>
                              THEN MIN(Len(old[1].children), Len(nv.children))
                              ELSE Len(nv.children)
                  ncache == IF old # <<>>
                            THEN MIN(Len(old[1].l2cache), Len(nv.l2cache))
                            ELSE Len(nv.l2cache)
              IN  print_iostat_normal(old, nv, children, path, depth,
                                      section, 1) \o
                  Flatten([n \in DOMAIN class_name |->
                      print_iostat_class(old, nv, children, path, depth,
                                         class_name[n], 1, FALSE)]) \o
                  (IF ncache > 0
                   THEN <<Header("cache")>> \o
                        Flatten([i \in 1..ncache |->
                            print_vdev_stats_rows(
                                IF old # <<>>
                                THEN <<old[1].l2cache[i]>>
                                ELSE <<>>,
                                nv.l2cache[i],
                                zpool_vdev_name(nv.l2cache, i, FALSE),
                                <<i>>, depth + 2, "cache")])
                   ELSE <<>>)

\* print_vdev_tree(): own is what the name argument prints, <<>> for NULL.
RECURSIVE print_vdev_tree(_, _, _, _, _, _)
RECURSIVE print_vdev_tree_from(_, _, _, _, _, _, _, _)
print_vdev_tree_from(nv, own, path, indent, match, section, c, printed) ==
    IF c > Len(nv.children)
    THEN <<>>
    ELSE LET child == nv.children[c]
             class == IF child.alloc_bias # <<>>
                      THEN child.alloc_bias[1]
                      ELSE IF child.is_log # 0 THEN "log" ELSE ""
         IN  IF child.is_hole = 1
             THEN print_vdev_tree_from(nv, own, path, indent, match, section,
                                       c + 1, printed)
             ELSE IF match # class
             THEN print_vdev_tree_from(nv, own, path, indent, match, section,
                                       c + 1, printed)
             ELSE (IF ~printed /\ own # <<>> THEN own ELSE <<>>) \o
                  print_vdev_tree(child,
                      <<Row(section, Append(path, c), indent + 2)>>,
                      Append(path, c), indent + 2, "", section) \o
                  print_vdev_tree_from(nv, own, path, indent, match, section,
                      c + 1, printed \/ own # <<>>)

print_vdev_tree(nv, own, path, indent, match, section) ==
    IF nv.children = <<>>
    THEN own
    ELSE print_vdev_tree_from(nv, own, path, indent, match, section, 1, FALSE)

\* print_cache_list() and print_spare_list() of the dry run.
print_cache_list(nv, indent) ==
    IF Len(nv.l2cache) > 0
    THEN <<Header("cache")>> \o
         [c \in DOMAIN nv.l2cache |-> Row("cache", <<c>>, indent + 2)]
    ELSE <<>>

print_spare_list(nv, indent) ==
    IF Len(nv.spares) > 0
    THEN <<Header("spares")>> \o
         [c \in DOMAIN nv.spares |-> Row("spares", <<c>>, indent + 2)]
    ELSE <<>>

\* The values of ZPOOL_CONFIG_ALLOCATION_BIAS: VDEV_ALLOC_BIAS_DEDUP,
\* VDEV_ALLOC_BIAS_SPECIAL and VDEV_ALLOC_BIAS_LOG, or no such key.
AllocBias == {<<>>, <<"dedup">>, <<"special">>, <<"log">>}

\* The top-level vdevs of the pools with classes: a disk, a two-way mirror
\* or an indirect vdev, with any is_log and any allocation bias, or a hole.
ClassTops ==
    {VdevNv(t, l, 0, b, vs_clean, <<>>) :
        t \in {"disk", "indirect"}, l \in {0, 1}, b \in AllocBias} \cup
    {VdevNv("mirror", l, 0, b, vs_clean,
            <<DiskNv(vs_clean), DiskNv(vs_clean)>>) :
        l \in {0, 1}, b \in AllocBias} \cup
    {VdevNv("hole", 0, 1, <<>>, vs_clean, <<>>)}

\* The l2cache and the spares array of the pools: absent, or one device.
AuxArrays == {<<>>, <<DiskNv(vs_clean)>>}

Commands == {"status", "import", "list", "iostat", "create"}

\* The top-level vdevs of the previous snapshot of a pool: the same ones;
\* one more (a vdev was removed since); one less (a vdev was added since);
\* or plain disks where the pool now may have mirrors (a disk was attached).
OldTops(tops) ==
    {tops, tops \o <<DiskNv(vs_clean)>>,
     [i \in DOMAIN tops |-> DiskNv(vs_clean)]} \cup
    (IF Len(tops) > 1 THEN {SubSeq(tops, 1, Len(tops) - 1)} ELSE {})

\* The previous snapshot print_iostat() holds for a pool: none in the first
\* iteration, else the tree as it was, its cache devices included.
OldSnapshots(root) ==
    {<<>>} \cup
    {<<RootNv(ot, oc, root.spares)>> :
        ot \in OldTops(root.children), oc \in AuxArrays}

\* A command has the configuration of a pool to render; iostat may have the
\* configuration of the previous iteration as well.
InitClass ==
    /\ st_cmd \in Commands
    /\ st_root \in {<<RootNv(tops, l2cache, spares)>> :
                       tops \in SeqsBetween(ClassTops, 1, MaxTop),
                       l2cache \in AuxArrays, spares \in AuxArrays}
    /\ st_oldroot \in IF st_cmd = "iostat"
                       THEN OldSnapshots(st_root[1])
                       ELSE {<<>>}
    /\ st_cb = <<[cb_print_status |-> st_cmd = "status",
                  cb_print_unhealthy |-> FALSE,
                  cb_print_slow_ios |-> FALSE]>>
    /\ st_out = <<>>
    /\ st_pc = "call"
    /\ IostatIdle
    /\ TrimIdle
    /\ WaitIdle
    /\ BlkioIdle
    /\ HistoIdle
    /\ NwIdle
    /\ EstIdle
    /\ IoIdle
    /\ DiskIdle
    /\ AccIdle
    /\ ExitIdle
    /\ VbioIdle
    /\ WlIdle
    /\ RoIdle
    /\ GetIdle

\* show_import(): the rows of the pool with its cache and spares, then the
\* dedup, special and logs sections.
show_import ==
    /\ st_pc = "call"
    /\ st_cmd = "import"
    /\ st_out' = print_import_config(st_cb[1], st_root[1], <<>>, 0, "normal") \o
                 print_class_vdevs(st_cb[1], st_root[1], "dedup") \o
                 print_class_vdevs(st_cb[1], st_root[1], "special") \o
                 print_class_vdevs(st_cb[1], st_root[1], "logs")
    /\ st_pc' = "done"
    /\ UNCHANGED <<st_cmd, st_root, st_oldroot, st_cb>>
    /\ UNCHANGED <<iostatVars, trimVars, waitVars, blkioVars, histoVars, nwVars, estVars, ioVars, diskVars, accVars, exitVars, vbioVars, wlVars, roVars, getVars>>

\* list_callback() with cb_verbose: print_list_stats(zhp, NULL, nvroot, ...).
list_callback ==
    /\ st_pc = "call"
    /\ st_cmd = "list"
    /\ st_out' = print_list_stats(st_root[1], <<>>, <<>>, 0, "normal")
    /\ st_pc' = "done"
    /\ UNCHANGED <<st_cmd, st_root, st_oldroot, st_cb>>
    /\ UNCHANGED <<iostatVars, trimVars, waitVars, blkioVars, histoVars, nwVars, estVars, ioVars, diskVars, accVars, exitVars, vbioVars, wlVars, roVars, getVars>>

\* print_iostat() with cb_verbose: print_vdev_stats() on the root, named
\* after the pool.
print_iostat ==
    /\ st_pc = "call"
    /\ st_cmd = "iostat"
    /\ st_out' = print_vdev_stats_rows(st_oldroot, st_root[1],
                     [tag |-> "pool", id |-> <<>>], <<>>, 0, "normal")
    /\ st_pc' = "done"
    /\ UNCHANGED <<st_cmd, st_root, st_oldroot, st_cb>>
    /\ UNCHANGED <<iostatVars, trimVars, waitVars, blkioVars, histoVars, nwVars, estVars, ioVars, diskVars, accVars, exitVars, vbioVars, wlVars, roVars, getVars>>

\* zpool_do_create() with -n: the layout the pool would have.
zpool_do_create_dryrun ==
    /\ st_pc = "call"
    /\ st_cmd = "create"
    /\ st_out' = print_vdev_tree(st_root[1], <<Row("normal", <<>>, 0)>>,
                     <<>>, 0, "", "normal") \o
                 print_vdev_tree(st_root[1], <<Header("dedup")>>,
                     <<>>, 0, "dedup", "dedup") \o
                 print_vdev_tree(st_root[1], <<Header("special")>>,
                     <<>>, 0, "special", "special") \o
                 print_vdev_tree(st_root[1], <<Header("logs")>>,
                     <<>>, 0, "log", "logs") \o
                 print_cache_list(st_root[1], 0) \o
                 print_spare_list(st_root[1], 0)
    /\ st_pc' = "done"
    /\ UNCHANGED <<st_cmd, st_root, st_oldroot, st_cb>>
    /\ UNCHANGED <<iostatVars, trimVars, waitVars, blkioVars, histoVars, nwVars, estVars, ioVars, diskVars, accVars, exitVars, vbioVars, wlVars, roVars, getVars>>

NextClass ==
    \/ status_callback
    \/ show_import
    \/ list_callback
    \/ print_iostat
    \/ zpool_do_create_dryrun

SpecClass == InitClass /\ [][NextClass]_vars

\* The array of the root a printed row names its vdev in.
ArrayOf(row) ==
    CASE row.section = "cache" -> "l2cache"
      [] row.section \in {"spares", "spare"} -> "spares"
      [] OTHER -> "children"

\* The section the allocation bias of a vdev names.
BiasSection(bias) == IF bias = "log" THEN "logs" ELSE bias

\* C4: a top-level vdev that carries both is_log and an explicit allocation
\* bias is placed, by every reader that renders it, in the section its
\* allocation bias names.
C4_ClassifiedByAllocBias ==
    st_pc = "done" =>
        \A c \in DOMAIN st_root[1].children :
            LET top == st_root[1].children[c]
            IN  (top.is_log = 1 /\ top.alloc_bias # <<>>) =>
                    \A i \in DOMAIN st_out :
                        (/\ st_out[i].kind = "row"
                         /\ ArrayOf(st_out[i]) = "children"
                         /\ IsPrefix(<<c>>, st_out[i].name))
                            => st_out[i].section =
                                   BiasSection(top.alloc_bias[1])

\* C5: within one render no vdev has two rows: a top-level vdev is in at
\* most one of the normal, logs, dedup, special, cache and spare sections.
C5_NoVdevRenderedTwice ==
    st_pc = "done" =>
        \A i, j \in DOMAIN st_out :
            (/\ i # j
             /\ st_out[i].kind = "row"
             /\ st_out[j].kind = "row"
             /\ ArrayOf(st_out[i]) = ArrayOf(st_out[j]))
                => st_out[i].name # st_out[j].name

\* C5 witness: a render of a pool with a special mirror and a log disk, a
\* cache device and a spare, where the four sections each have their rows.
C5_Witness ==
    /\ st_pc = "done"
    /\ st_cmd \in {"status", "list"}
    /\ Len(st_root[1].children) = 2
    /\ st_root[1].children[1].type = "mirror"
    /\ st_root[1].children[1].alloc_bias = <<"special">>
    /\ st_root[1].children[1].is_log = 0
    /\ st_root[1].children[2].is_log = 1
    /\ st_root[1].children[2].alloc_bias = <<"log">>
    /\ st_root[1].children[2].type = "disk"
    /\ \E i \in DOMAIN st_out : st_out[i] = Row("special", <<1, 2>>, 4)
    /\ \E i \in DOMAIN st_out : st_out[i] = Row("logs", <<2>>, 2)
    /\ \E i \in DOMAIN st_out : st_out[i].kind = "row" /\ st_out[i].section = "cache"
    /\ \E i \in DOMAIN st_out :
           st_out[i].kind = "row" /\ st_out[i].section \in {"spares", "spare"}

(***************************************************************************)
(* zpool wait: the main thread and the status thread (zpool_wait.c)        *)
(***************************************************************************)
\* The status rows counted; further rows leave the count at the bound.
MaxRows == 2

\* Results of pthread_cond_timedwait() besides 0.
ETIMEDOUT == 110
EINVAL == 22

\* The fields of wait_data_t that hold data (wd_cv and wd_mutex are the
\* synchronisation objects).
WdFields ==
    {"wd_poolname", "wd_scripted", "wd_exact", "wd_headers_once",
     "wd_should_exit", "wd_enabled", "wd_interval"}

\* One access: the thread, the object (a field of wd, or the pool handle
\* id), read or write, whether the thread held wd_mutex, and whether the
\* other thread existed: the status thread exists from pthread_create()
\* to pthread_join(), the main thread during the whole life of the status
\* thread.
Access(thread, obj, id, op, locked) ==
    [thread |-> thread, obj |-> obj, id |-> id, op |-> op, locked |-> locked,
     conc |-> (thread = "worker" \/
               m_pc \in {"loop", "lock", "set", "signal", "unlock", "join"})]

\* A variant of zpool_open that hands out the one handle again.
zpool_open_shared(count) == 1

\* zpool_open() returns a newly allocated pool handle: the handles are
\* numbered in the order they are returned.
zpool_open(count) == count + 1

\* zpool_do_wait() with an interval given (verbose) is about to create the
\* status thread; wd_should_exit is B_FALSE, the fields of wd
\* are set and the pool is open.
InitWait ==
    /\ wd_should_exit = FALSE
    /\ wd_mutex = "free"
    /\ w_pc = "unborn"
    /\ w_ret = 0
    /\ w_rows = 0
    /\ w_exit = "none"
    /\ m_pc = "create"
    /\ m_error = 0
    /\ wd_log = {Access("main", f, 0, "write", FALSE) : f \in WdFields}
    /\ zhp_count = zpool_open(0)
    /\ m_zhp = zpool_open(0)
    /\ w_zhp = 0
    /\ IostatIdle
    /\ TrimIdle
    /\ StatusIdle
    /\ BlkioIdle
    /\ HistoIdle
    /\ NwIdle
    /\ EstIdle
    /\ IoIdle
    /\ DiskIdle
    /\ ExitIdle
    /\ VbioIdle
    /\ WlIdle
    /\ RoIdle
    /\ GetIdle

WaitOthersUnchanged ==
    UNCHANGED <<iostatVars, trimVars, statusVars, blkioVars, histoVars, nwVars, estVars, ioVars, diskVars, exitVars, vbioVars, wlVars, roVars, getVars>>

\* if (!wd->wd_should_exit) ret = pthread_cond_timedwait(...): the wait is
\* entered only with the flag clear.  The variant enters it always.
timedwait_entered_always(should_exit) == TRUE

timedwait_entered(should_exit) == ~should_exit

\* wait_status_thread(): zpool_open().
w_open ==
    /\ w_pc = "open"
    /\ \/ w_pc' = "refresh" /\ UNCHANGED w_exit
       \/ w_pc' = "done" /\ w_exit' = "error"
    /\ UNCHANGED <<wd_should_exit, wd_mutex, w_ret, w_rows, m_pc, m_error>>
    /\ IF w_pc' = "refresh"
       THEN /\ w_zhp' = zpool_open(zhp_count)
            /\ zhp_count' = zpool_open(zhp_count)
            /\ wd_log' = wd_log \cup
                  {Access("worker", "wd_poolname", 0, "read", FALSE),
                   Access("worker", "zhp", zpool_open(zhp_count), "write", FALSE)}
       ELSE /\ wd_log' = wd_log \cup
                  {Access("worker", "wd_poolname", 0, "read", FALSE)}
            /\ UNCHANGED <<w_zhp, zhp_count>>
    /\ UNCHANGED m_zhp
    /\ WaitOthersUnchanged

\* The head of the loop: ret = 0, the statistics are refreshed and a status
\* row is printed; the thread returns if the pool is gone or on an error.
w_refresh ==
    /\ w_pc = "refresh"
    /\ \/ /\ w_pc' = "lock"
          /\ w_ret' = 0
          /\ w_rows' = IF w_rows < MaxRows THEN w_rows + 1 ELSE w_rows
          /\ UNCHANGED w_exit
       \/ /\ w_pc' = "done"
          /\ w_exit' \in {"missing", "error"}
          /\ UNCHANGED <<w_ret, w_rows>>
    /\ UNCHANGED <<wd_should_exit, wd_mutex, m_pc, m_error>>
    /\ wd_log' = wd_log \cup
          {Access("worker", "zhp", w_zhp, "write", FALSE)} \cup
          (IF w_pc' = "lock"
           THEN {Access("worker", "zhp", w_zhp, "read", FALSE)} \cup
                {Access("worker", f, 0, "read", FALSE) :
                    f \in {"wd_headers_once", "wd_scripted", "wd_enabled",
                           "wd_exact", "wd_interval"}}
           ELSE {})
    /\ UNCHANGED <<zhp_count, m_zhp, w_zhp>>
    /\ WaitOthersUnchanged

\* A variant of w_lock that goes on to the test without taking the mutex.
w_lock_unheld ==
    /\ w_pc = "lock"
    /\ w_pc' = "check"
    /\ UNCHANGED <<wd_should_exit, wd_mutex, w_ret, w_rows, w_exit, m_pc, m_error>>
    /\ UNCHANGED accVars
    /\ WaitOthersUnchanged

\* pthread_mutex_lock(&wd->wd_mutex).
w_lock ==
    /\ w_pc = "lock"
    /\ wd_mutex = "free"
    /\ wd_mutex' = "worker"
    /\ w_pc' = "check"
    /\ UNCHANGED <<wd_should_exit, w_ret, w_rows, w_exit, m_pc, m_error>>
    /\ UNCHANGED accVars
    /\ WaitOthersUnchanged

\* The test of wd_should_exit under the mutex: the timed wait is skipped, or
\* entered (the mutex is released while the thread is blocked), or fails at
\* once with the mutex still held.
w_check ==
    /\ w_pc = "check"
    /\ IF timedwait_entered(wd_should_exit)
       THEN \/ w_pc' = "waiting" /\ wd_mutex' = "free" /\ UNCHANGED w_ret
            \/ w_pc' = "unlock" /\ w_ret' = EINVAL /\ UNCHANGED wd_mutex
       ELSE w_pc' = "unlock" /\ UNCHANGED <<w_ret, wd_mutex>>
    /\ UNCHANGED <<wd_should_exit, w_rows, w_exit, m_pc, m_error>>
    /\ wd_log' = wd_log \cup
          {Access("worker", "wd_should_exit", 0, "read", wd_mutex = "worker")}
    /\ UNCHANGED <<zhp_count, m_zhp, w_zhp>>
    /\ WaitOthersUnchanged

\* pthread_cond_timedwait() times out.
w_timeout ==
    /\ w_pc = "waiting"
    /\ w_pc' = "reacquire"
    /\ w_ret' = ETIMEDOUT
    /\ UNCHANGED <<wd_should_exit, wd_mutex, w_rows, w_exit, m_pc, m_error>>
    /\ UNCHANGED accVars
    /\ WaitOthersUnchanged

\* pthread_cond_timedwait() wakes up without a signal, as POSIX allows, and
\* returns 0.
w_spurious ==
    /\ w_pc = "waiting"
    /\ w_pc' = "reacquire"
    /\ w_ret' = 0
    /\ UNCHANGED <<wd_should_exit, wd_mutex, w_rows, w_exit, m_pc, m_error>>
    /\ UNCHANGED accVars
    /\ WaitOthersUnchanged

\* The woken thread takes the mutex again before the wait returns.
w_reacquire ==
    /\ w_pc = "reacquire"
    /\ wd_mutex = "free"
    /\ wd_mutex' = "worker"
    /\ w_pc' = "unlock"
    /\ UNCHANGED <<wd_should_exit, w_ret, w_rows, w_exit, m_pc, m_error>>
    /\ UNCHANGED accVars
    /\ WaitOthersUnchanged

\* pthread_mutex_unlock(&wd->wd_mutex).
w_unlock ==
    /\ w_pc = "unlock"
    /\ wd_mutex' = "free"
    /\ w_pc' = "test"
    /\ UNCHANGED <<wd_should_exit, w_ret, w_rows, w_exit, m_pc, m_error>>
    /\ UNCHANGED accVars
    /\ WaitOthersUnchanged

\* if (ret == 0) break; else if (ret != ETIMEDOUT) return 1; else loop.
w_test ==
    /\ w_pc = "test"
    /\ IF w_ret = 0
       THEN w_pc' = "done" /\ w_exit' = "break"
       ELSE IF w_ret # ETIMEDOUT
            THEN w_pc' = "done" /\ w_exit' = "error"
            ELSE w_pc' = "refresh" /\ UNCHANGED w_exit
    /\ UNCHANGED <<wd_should_exit, wd_mutex, w_ret, w_rows, m_pc, m_error>>
    /\ wd_log' = wd_log \cup
          (IF w_pc' = "done"
           THEN {Access("worker", "zhp", w_zhp, "write", FALSE)} ELSE {})
    /\ UNCHANGED <<zhp_count, m_zhp, w_zhp>>
    /\ WaitOthersUnchanged

\* zpool_do_wait(): pthread_create() of the status thread.
m_create ==
    /\ m_pc = "create"
    /\ \/ m_pc' = "loop" /\ w_pc' = "open" /\ UNCHANGED m_error
       \/ m_pc' = "done" /\ m_error' = 1 /\ UNCHANGED w_pc
    /\ UNCHANGED <<wd_should_exit, wd_mutex, w_ret, w_rows, w_exit>>
    /\ wd_log' = wd_log \cup
          (IF m_pc' = "done"
           THEN {Access("main", "zhp", m_zhp, "write", FALSE)} ELSE {})
    /\ UNCHANGED <<zhp_count, m_zhp, w_zhp>>
    /\ WaitOthersUnchanged

\* The loop over the activities ends: none was waited for, the pool is gone
\* or zpool_wait_status() failed.
m_loop ==
    /\ m_pc = "loop"
    /\ m_error' \in {0, 1}
    /\ m_pc' = "lock"
    /\ UNCHANGED <<wd_should_exit, wd_mutex, w_pc, w_ret, w_rows, w_exit>>
    /\ wd_log' = wd_log \cup
          {Access("main", "wd_enabled", 0, "read", FALSE),
           Access("main", "zhp", m_zhp, "read", FALSE),
           Access("main", "zhp", m_zhp, "write", FALSE)}
    /\ UNCHANGED <<zhp_count, m_zhp, w_zhp>>
    /\ WaitOthersUnchanged

\* pthread_mutex_lock(&wd.wd_mutex).
m_lock ==
    /\ m_pc = "lock"
    /\ wd_mutex = "free"
    /\ wd_mutex' = "main"
    /\ m_pc' = "set"
    /\ UNCHANGED <<wd_should_exit, w_pc, w_ret, w_rows, w_exit, m_error>>
    /\ UNCHANGED accVars
    /\ WaitOthersUnchanged

\* wd.wd_should_exit = B_TRUE.
m_set ==
    /\ m_pc = "set"
    /\ wd_should_exit' = TRUE
    /\ m_pc' = "signal"
    /\ UNCHANGED <<wd_mutex, w_pc, w_ret, w_rows, w_exit, m_error>>
    /\ wd_log' = wd_log \cup
          {Access("main", "wd_should_exit", 0, "write", wd_mutex = "main")}
    /\ UNCHANGED <<zhp_count, m_zhp, w_zhp>>
    /\ WaitOthersUnchanged

\* pthread_cond_signal(&wd.wd_cv): a thread blocked in the wait is woken and
\* its wait will return 0; with no thread blocked the signal has no effect.
m_signal ==
    /\ m_pc = "signal"
    /\ IF w_pc = "waiting"
       THEN w_pc' = "reacquire" /\ w_ret' = 0
       ELSE UNCHANGED <<w_pc, w_ret>>
    /\ m_pc' = "unlock"
    /\ UNCHANGED <<wd_should_exit, wd_mutex, w_rows, w_exit, m_error>>
    /\ UNCHANGED accVars
    /\ WaitOthersUnchanged

\* pthread_mutex_unlock(&wd.wd_mutex).
m_unlock ==
    /\ m_pc = "unlock"
    /\ wd_mutex' = "free"
    /\ m_pc' = "join"
    /\ UNCHANGED <<wd_should_exit, w_pc, w_ret, w_rows, w_exit, m_error>>
    /\ UNCHANGED accVars
    /\ WaitOthersUnchanged

\* pthread_join(status_thr, &status); if (status != 0) error = status.
m_join ==
    /\ m_pc = "join"
    /\ w_pc = "done"
    /\ m_error' = IF w_exit = "error" THEN 1 ELSE m_error
    /\ m_pc' = "done"
    /\ UNCHANGED <<wd_should_exit, wd_mutex, w_pc, w_ret, w_rows, w_exit>>
    /\ UNCHANGED accVars
    /\ WaitOthersUnchanged

NextWait ==
    \/ w_open \/ w_refresh \/ w_lock \/ w_check \/ w_timeout \/ w_spurious
    \/ w_reacquire \/ w_unlock \/ w_test
    \/ m_create \/ m_loop \/ m_lock \/ m_set \/ m_signal \/ m_unlock \/ m_join

SpecWait == InitWait /\ [][NextWait]_vars

\* Both threads are scheduled: a step of the code that stays possible is
\* taken.  Nothing makes the timeout, a spurious wakeup or the end of the
\* activities happen.
SpecWaitFair ==
    /\ SpecWait
    /\ WF_vars(w_open) /\ WF_vars(w_refresh) /\ WF_vars(w_lock)
    /\ WF_vars(w_check) /\ WF_vars(w_reacquire) /\ WF_vars(w_unlock)
    /\ WF_vars(w_test)
    /\ WF_vars(m_lock) /\ WF_vars(m_set) /\ WF_vars(m_signal)
    /\ WF_vars(m_unlock) /\ WF_vars(m_join)

\* C6: the status thread leaves its loop by the break only when the
\* should-exit flag is set: a return of the timed wait while the flag is
\* false does not end it.
C6_SpuriousWakeupTolerated ==
    w_exit = "break" => wd_should_exit

\* The main thread has set the flag and signalled the condition variable.
Signalled == wd_should_exit /\ m_pc \in {"unlock", "join", "done"}

\* C7: once the main thread has set the should-exit flag and signalled, the
\* status thread is never blocked in the timed wait again, whether the flag
\* was set before or after it began to wait, and the join of the main thread
\* completes.
C7_WorkerExitsOnSignal ==
    /\ [](Signalled => w_pc # "waiting")
    /\ (Signalled ~> m_pc = "done")

\* C7 witness: the flag was set while the status thread was on its way to
\* the wait; it skipped the wait, left by the break after one row, and the
\* join completed.
C7_Witness ==
    /\ m_pc = "done"
    /\ wd_should_exit
    /\ w_exit = "break"
    /\ w_rows = 1
    /\ w_ret = 0

\* Two accesses of the two threads to one object, one of them a write, made
\* while both threads exist and not both under wd_mutex.
Race(a, b) ==
    /\ a.thread # b.thread
    /\ a.obj = b.obj /\ a.id = b.id
    /\ a.op = "write" \/ b.op = "write"
    /\ a.conc /\ b.conc
    /\ ~(a.locked /\ b.locked)

\* The objects both threads touch while both exist, one of them writing.
SharedMutable ==
    {a.obj : a \in {x \in wd_log : \E y \in wd_log :
                       /\ x.thread # y.thread
                       /\ x.obj = y.obj /\ x.id = y.id
                       /\ x.conc /\ y.conc
                       /\ x.op = "write" \/ y.op = "write"}}

\* C20: during zpool wait there is no data race: while both threads exist
\* the only state one writes and the other touches is wd_should_exit, every
\* read and write of it is made with wd_mutex held, and no pool handle (with
\* the snapshot it carries) is touched by both threads.
C20_NoDataRace ==
    /\ \A a \in wd_log : \A b \in wd_log : ~Race(a, b)
    /\ SharedMutable \subseteq {"wd_should_exit"}
    /\ \A a \in wd_log :
          a.obj = "wd_should_exit" /\ a.conc => a.locked
    /\ \A a \in wd_log : \A b \in wd_log :
          a.obj = "zhp" /\ b.obj = "zhp" /\ a.thread # b.thread => a.id # b.id
    /\ w_zhp # 0 => w_zhp # m_zhp

\* C20 witness: the main thread has set the flag and the status thread has
\* read it, both under the mutex, and each thread has refreshed and closed
\* a handle of its own.
C20_Witness ==
    /\ m_pc = "done"
    /\ w_pc = "done"
    /\ \E a \in wd_log :
          /\ a.thread = "main" /\ a.obj = "wd_should_exit"
          /\ a.op = "write" /\ a.conc /\ a.locked
    /\ \E a \in wd_log :
          a.thread = "worker" /\ a.obj = "wd_should_exit" /\ a.locked
    /\ SharedMutable = {"wd_should_exit"}
    /\ \E a \in wd_log : a.thread = "main" /\ a.obj = "zhp" /\ a.id = 1
    /\ \E a \in wd_log : a.thread = "worker" /\ a.obj = "zhp" /\ a.id = 2

(***************************************************************************)
(* vdev_blkio: io_start, the libblkio queues and the completion threads    *)
(* (module/os/linux/zfs/vdev_blkio.c)                                      *)
(***************************************************************************)
\* The zios handed to io_start.  MAX_THREADS and MAX_COMPLETIONS are 4 and
\* 16 in the source and are bounded here.
MaxZio == 3
MAX_THREADS == 2
MAX_COMPLETIONS == 2

\* Error numbers: what io_start sets for an unsupported type, and what the
\* device reports, negated, for a failed read.
ENOTSUP == 95
EIO == 5

Zios == 1..MaxZio
Threads == 1..MAX_THREADS
Slots == 1..MaxZio

\* blkio_get_queue(b, i % nq), with threads and queues counted from 1.
QueueOf(t) == ((t - 1) % vdev_tsd[1]) + 1

\* A zio_t as the backend sees it: io_type and io_error; pc, vbt and req
\* are the position and the locals of vdev_blkio_io_start(); interrupts
\* counts the calls of zio_interrupt() (up to 2); dev_ret is the result the
\* device produced for the read of this zio, <<>> before it has one.
NewZio(type) ==
    [io_type |-> type, io_error |-> 0, pc |-> "new", vbt |-> 0, req |-> 0,
     interrupts |-> 0, dev_ret |-> <<>>]

\* zio_interrupt(zio).
zio_interrupt(zio) ==
    [zio EXCEPT !.interrupts = IF @ < 2 THEN @ + 1 ELSE @]

\* The vdev after vdev_blkio_open() with 1..MAX_THREADS queues, or a vdev
\* that is not open (vdev_tsd is NULL), and the zios the upper layer is
\* about to start on it.
InitBlkio ==
    /\ vdev_tsd \in {<<>>} \cup {<<nq>> : nq \in 1..MAX_THREADS}
    /\ zios \in [Zios -> {NewZio(t) : t \in {"ZIO_TYPE_READ", "ZIO_TYPE_WRITE"}}]
    /\ vbr = [s \in Slots |-> [vbr_zio |-> 0, free |-> TRUE]]
    /\ vbt_lock = [t \in Threads |-> <<"free">>]
    /\ blkioq = [q \in Threads |-> [inflight |-> {}, cq |-> <<>>, event |-> FALSE]]
    /\ vbt_pc = [t \in Threads |-> IF vdev_tsd = <<>> THEN "none" ELSE "read"]
    /\ completion = [t \in Threads |-> <<>>]
    /\ blk_panic = FALSE
    /\ IostatIdle
    /\ TrimIdle
    /\ StatusIdle
    /\ WaitIdle
    /\ HistoIdle
    /\ NwIdle
    /\ EstIdle
    /\ IoIdle
    /\ DiskIdle
    /\ AccIdle
    /\ ExitIdle
    /\ VbioIdle
    /\ WlIdle
    /\ RoIdle
    /\ GetIdle

BlkioOthersUnchanged ==
    UNCHANGED <<iostatVars, trimVars, statusVars, waitVars, histoVars, nwVars, estVars, ioVars, diskVars, accVars, exitVars, vbioVars, wlVars, roVars, getVars>>

\* vdev_blkio_io_start() up to mutex_enter(): a thread is drawn at random;
\* a read allocates its request; any other type is handed back with
\* ENOTSUP.  With vdev_tsd NULL the read dereferences a NULL-based pointer.
\* The zios are started in the order of their numbers, and the request
\* cache hands out its lowest free object.
vdev_blkio_io_start(z) ==
    /\ ~blk_panic
    /\ zios[z].pc = "new"
    /\ \A y \in 1..(z - 1) : zios[y].pc # "new"
    /\ \E t \in Threads :
        IF zios[z].io_type = "ZIO_TYPE_READ"
        THEN IF vdev_tsd = <<>>
             THEN /\ blk_panic' = TRUE
                  /\ UNCHANGED <<zios, vbr>>
             ELSE \E s \in Slots :
                  /\ vbr[s].free
                  /\ \A r \in 1..(s - 1) : ~vbr[r].free
                  /\ vbr' = [vbr EXCEPT ![s] = [vbr_zio |-> z, free |-> FALSE]]
                  /\ zios' = [zios EXCEPT ![z].pc = "lock", ![z].vbt = t,
                                          ![z].req = s]
                  /\ UNCHANGED blk_panic
        ELSE /\ zios' = [zios EXCEPT ![z] =
                            zio_interrupt([@ EXCEPT !.io_error = ENOTSUP,
                                                    !.pc = "returned"])]
             /\ UNCHANGED <<vbr, blk_panic>>
    /\ UNCHANGED <<vdev_tsd, vbt_lock, blkioq, vbt_pc, completion>>
    /\ BlkioOthersUnchanged

\* mutex_enter(&vbt->vbt_lock) of io_start.
io_start_lock(z) ==
    /\ ~blk_panic
    /\ zios[z].pc = "lock"
    /\ vbt_lock[zios[z].vbt] = <<"free">>
    /\ vbt_lock' = [vbt_lock EXCEPT ![zios[z].vbt] = <<"zio", z>>]
    /\ zios' = [zios EXCEPT ![z].pc = "submit"]
    /\ UNCHANGED <<vdev_tsd, vbr, blkioq, vbt_pc, completion, blk_panic>>
    /\ BlkioOthersUnchanged

\* blkioq_read() and blkioq_do_io(q, NULL, 0, 0, NULL): the read is
\* submitted, or the submission fails and its result is not looked at.
io_start_submit(z) ==
    /\ ~blk_panic
    /\ zios[z].pc = "submit"
    /\ LET q == QueueOf(zios[z].vbt)
       IN  \/ blkioq' = [blkioq EXCEPT ![q].inflight =
                            @ \cup {[user_data |-> zios[z].req, zio |-> z]}]
           \/ UNCHANGED blkioq
    /\ zios' = [zios EXCEPT ![z].pc = "unlock"]
    /\ UNCHANGED <<vdev_tsd, vbr, vbt_lock, vbt_pc, completion, blk_panic>>
    /\ BlkioOthersUnchanged

\* mutex_exit(&vbt->vbt_lock) of io_start, which returns.
io_start_unlock(z) ==
    /\ ~blk_panic
    /\ zios[z].pc = "unlock"
    /\ vbt_lock' = [vbt_lock EXCEPT ![zios[z].vbt] = <<"free">>]
    /\ zios' = [zios EXCEPT ![z].pc = "returned"]
    /\ UNCHANGED <<vdev_tsd, vbr, blkioq, vbt_pc, completion, blk_panic>>
    /\ BlkioOthersUnchanged

\* The device finishes a read in flight: its completion, with the result and
\* the user_data of the request, is queued and the completion fd signalled.
device_completes(q) ==
    /\ ~blk_panic
    /\ \E r \in blkioq[q].inflight, ret \in {0, -EIO} :
        /\ blkioq' = [blkioq EXCEPT
               ![q].inflight = @ \ {r},
               ![q].cq = Append(@, [user_data |-> r.user_data, ret |-> ret,
                                    zio |-> r.zio]),
               ![q].event = TRUE]
        /\ zios' = [zios EXCEPT ![r.zio].dev_ret = <<ret>>]
    /\ UNCHANGED <<vdev_tsd, vbr, vbt_lock, vbt_pc, completion, blk_panic>>
    /\ BlkioOthersUnchanged

\* read(fd, ...) of the completion thread: blocks until the completion fd of
\* its queue is signalled, and resets it.
completion_thread_read(t) ==
    /\ ~blk_panic
    /\ vbt_pc[t] = "read"
    /\ blkioq[QueueOf(t)].event
    /\ blkioq' = [blkioq EXCEPT ![QueueOf(t)].event = FALSE]
    /\ vbt_pc' = [vbt_pc EXCEPT ![t] = "lock"]
    /\ UNCHANGED <<vdev_tsd, zios, vbr, vbt_lock, completion, blk_panic>>
    /\ BlkioOthersUnchanged

\* mutex_enter(&vbt->vbt_lock) of the completion thread: the lock of this
\* thread, whichever queue the thread is bound to.
completion_thread_lock(t) ==
    /\ ~blk_panic
    /\ vbt_pc[t] = "lock"
    /\ vbt_lock[t] = <<"free">>
    /\ vbt_lock' = [vbt_lock EXCEPT ![t] = <<"thr", t>>]
    /\ vbt_pc' = [vbt_pc EXCEPT ![t] = "do_io"]
    /\ UNCHANGED <<vdev_tsd, zios, vbr, blkioq, completion, blk_panic>>
    /\ BlkioOthersUnchanged

\* The first half of blkioq_do_io(q, completion, 0, MAX_COMPLETIONS, NULL):
\* up to MAX_COMPLETIONS completions are copied out of the queue.
completion_thread_do_io(t) ==
    /\ ~blk_panic
    /\ vbt_pc[t] = "do_io"
    /\ LET cq == blkioq[QueueOf(t)].cq
           nc == MIN(Len(cq), MAX_COMPLETIONS)
       IN  completion' = [completion EXCEPT ![t] = SubSeq(cq, 1, nc)]
    /\ vbt_pc' = [vbt_pc EXCEPT ![t] = "advance"]
    /\ UNCHANGED <<vdev_tsd, zios, vbr, vbt_lock, blkioq, blk_panic>>
    /\ BlkioOthersUnchanged

\* The second half of blkioq_do_io(): the completions copied out are
\* removed from the queue.  Between the two halves nothing else touches the
\* queue when every user of the queue holds the same lock.
completion_thread_advance(t) ==
    /\ ~blk_panic
    /\ vbt_pc[t] = "advance"
    /\ LET taken == {completion[t][i] : i \in 1..Len(completion[t])}
       IN  blkioq' = [blkioq EXCEPT ![QueueOf(t)].cq =
                         SelectSeq(@, LAMBDA e : e \notin taken)]
    /\ vbt_pc' = [vbt_pc EXCEPT ![t] = "unlock"]
    /\ UNCHANGED <<vdev_tsd, zios, vbr, vbt_lock, completion, blk_panic>>
    /\ BlkioOthersUnchanged

\* mutex_exit(&vbt->vbt_lock): with nc <= 0 the thread goes back to read(),
\* otherwise to the loop over the batch.
completion_thread_unlock(t) ==
    /\ ~blk_panic
    /\ vbt_pc[t] = "unlock"
    /\ vbt_lock' = [vbt_lock EXCEPT ![t] = <<"free">>]
    /\ vbt_pc' = [vbt_pc EXCEPT ![t] =
                     IF completion[t] = <<>> THEN "read" ELSE "process"]
    /\ UNCHANGED <<vdev_tsd, zios, vbr, blkioq, completion, blk_panic>>
    /\ BlkioOthersUnchanged

\* One round of the loop over the batch: the request is looked up through
\* user_data, freed, the error of this completion is stored in the zio the
\* request names, and the zio is handed back.
completion_thread_process(t) ==
    /\ ~blk_panic
    /\ vbt_pc[t] = "process"
    /\ LET c == Head(completion[t])
           z == vbr[c.user_data].vbr_zio
       IN  /\ vbr' = [vbr EXCEPT ![c.user_data].free = TRUE]
           /\ zios' = [zios EXCEPT ![z] =
                          zio_interrupt(IF c.ret < 0
                                        THEN [@ EXCEPT !.io_error = -c.ret]
                                        ELSE @)]
    /\ completion' = [completion EXCEPT ![t] = Tail(@)]
    /\ vbt_pc' = [vbt_pc EXCEPT ![t] =
                     IF Tail(completion[t]) = <<>> THEN "read" ELSE "process"]
    /\ UNCHANGED <<vdev_tsd, vbt_lock, blkioq, blk_panic>>
    /\ BlkioOthersUnchanged

NextBlkio ==
    \/ \E z \in Zios : vdev_blkio_io_start(z)
    \/ \E z \in Zios : io_start_lock(z)
    \/ \E z \in Zios : io_start_submit(z)
    \/ \E z \in Zios : io_start_unlock(z)
    \/ \E q \in Threads : device_completes(q)
    \/ \E t \in Threads : completion_thread_read(t)
    \/ \E t \in Threads : completion_thread_lock(t)
    \/ \E t \in Threads : completion_thread_do_io(t)
    \/ \E t \in Threads : completion_thread_advance(t)
    \/ \E t \in Threads : completion_thread_unlock(t)
    \/ \E t \in Threads : completion_thread_process(t)

SpecBlkio == InitBlkio /\ [][NextBlkio]_vars

\* Nothing is left to happen: every io_start has returned, no read is in
\* flight, no completion is queued or being processed.
BlkioQuiescent ==
    /\ \A z \in Zios : zios[z].pc = "returned"
    /\ \A q \in Threads : blkioq[q].inflight = {} /\ blkioq[q].cq = <<>>
    /\ \A t \in Threads : completion[t] = <<>> /\ vbt_pc[t] \in {"read", "none"}

\* C8: every request passed to io_start is handed back by exactly one
\* zio_interrupt() call on every path: no request is handed back twice, no
\* io_start brings the kernel down, and once nothing is left to happen every
\* request has been handed back.
C8_HandedBackExactlyOnce ==
    /\ \A z \in Zios : zios[z].interrupts <= 1
    /\ ~blk_panic
    /\ BlkioQuiescent => \A z \in Zios : zios[z].interrupts = 1

\* C9: a read that has been handed back carries the result the device
\* produced for that read: the negated error when it failed, no error when
\* it succeeded.
C9_OwnResultPerRequest ==
    \A z \in Zios :
        (zios[z].io_type = "ZIO_TYPE_READ" /\ zios[z].interrupts >= 1) =>
            /\ zios[z].dev_ret # <<>>
            /\ zios[z].io_error =
                   IF zios[z].dev_ret[1] < 0 THEN -zios[z].dev_ret[1] ELSE 0

\* The users of queue q at this moment: the zios whose io_start is between
\* mutex_enter and mutex_exit around blkioq_read/blkioq_do_io on q, and the
\* completion threads between mutex_enter and mutex_exit around their
\* blkioq_do_io on q.
QueueUsers(q) ==
    IF vdev_tsd = <<>> THEN {}
    ELSE {<<"zio", z>> : z \in {y \in Zios : /\ zios[y].pc \in {"submit", "unlock"}
                                             /\ QueueOf(zios[y].vbt) = q}}
         \cup {<<"thr", t>> : t \in {u \in Threads :
                                       /\ vbt_pc[u] \in {"do_io", "advance", "unlock"}
                                       /\ QueueOf(u) = q}}

\* C27: operations on one libblkio queue are mutually exclusive across all
\* threads: at no moment do two of them, an io_start queuing a read or a
\* completion thread draining completions, work on the same queue.
C27_QueueMutualExclusion ==
    \A q \in Threads : Cardinality(QueueUsers(q)) <= 1

(***************************************************************************)
(* zpool iostat -l: single_histo_average (cmd/zpool/zpool_iostat.c)        *)
(***************************************************************************)
\* The number of buckets of the histogram, and the largest count one bucket
\* holds.  Counts, the total and the count sum are CounterBits wide.
LatencyBuckets == 3
MaxHistoCount == 3

\* The midpoint of bucket i: (1UL << i) + ((1UL << i) / 2).
histo_midpoint(i) == Pow2(i) + (Pow2(i) \div 2)

\* The loop of single_histo_average over buckets 0 .. n-1: the pair
\* <<total, count>>, each addition and product wrapping as uint64_t does.
RECURSIVE histo_sums(_, _)
histo_sums(h, n) ==
    IF n = 0 THEN <<0, 0>>
    ELSE LET prev == histo_sums(h, n - 1)
             i == n - 1
         IN  IF h[i] # 0
             THEN <<(prev[1] + h[i] * histo_midpoint(i)) % Pow2(CounterBits),
                    (prev[2] + h[i]) % Pow2(CounterBits)>>
             ELSE prev

\* single_histo_average(histo, buckets).
single_histo_average(h, buckets) ==
    LET sums == histo_sums(h, buckets)
    IN  IF sums[2] = 0 THEN 0 ELSE sums[1] \div sums[2]

InitHisto ==
    /\ histo \in [0..(LatencyBuckets - 1) -> 0..MaxHistoCount]
    /\ histo_avg = <<>>
    /\ IostatIdle
    /\ TrimIdle
    /\ StatusIdle
    /\ WaitIdle
    /\ BlkioIdle
    /\ NwIdle
    /\ EstIdle
    /\ IoIdle
    /\ DiskIdle
    /\ AccIdle
    /\ ExitIdle
    /\ VbioIdle
    /\ WlIdle
    /\ RoIdle
    /\ GetIdle

\* print_iostat_latency() calls single_histo_average on one histogram.
print_iostat_latency ==
    /\ histo_avg = <<>>
    /\ histo_avg' = <<single_histo_average(histo, LatencyBuckets)>>
    /\ UNCHANGED histo
    /\ UNCHANGED <<iostatVars, trimVars, statusVars, waitVars, blkioVars, nwVars, estVars, ioVars, diskVars, accVars, exitVars, vbioVars, wlVars, roVars, getVars>>

NextHisto == print_iostat_latency

SpecHisto == InitHisto /\ [][NextHisto]_vars

\* The non-empty buckets of the histogram.
NonEmptyBuckets == {i \in DOMAIN histo : histo[i] # 0}

\* C11: the average of an all-zero histogram is 0, and the average of any
\* other histogram lies between the lower bound 2^i of its lowest non-empty
\* bucket and the upper bound 2^(j+1) - 1 of its highest non-empty bucket.
C11_AverageWithinBuckets ==
    histo_avg # <<>> =>
        IF NonEmptyBuckets = {}
        THEN histo_avg[1] = 0
        ELSE LET lo == CHOOSE i \in NonEmptyBuckets :
                           \A k \in NonEmptyBuckets : i <= k
                 hi == CHOOSE j \in NonEmptyBuckets :
                           \A k \in NonEmptyBuckets : k <= j
             IN  /\ Pow2(lo) <= histo_avg[1]
                 /\ histo_avg[1] <= Pow2(hi + 1) - 1

\* Every index of the path is within the children of the old and of the new
\* node it is applied to.
RECURSIVE WithinBoth(_, _, _)
WithinBoth(old, nv, path) ==
    \/ path = <<>>
    \/ /\ Head(path) <= Len(old.children)
       /\ Head(path) <= Len(nv.children)
       /\ WithinBoth(old.children[Head(path)], nv.children[Head(path)],
                     Tail(path))

\* The row is the row of a vdev within the first min(old, new) entries of
\* the children array, or of the cache array, that holds it.
RowWithinBoth(row) ==
    /\ row.kind = "row"
    /\ IF row.section = "cache"
       THEN /\ row.name[1] <= Len(st_oldroot[1].l2cache)
            /\ row.name[1] <= Len(st_root[1].l2cache)
       ELSE WithinBoth(st_oldroot[1], st_root[1], row.name)

\* The rows iostat -v prints for the pool when it has no previous snapshot.
RowsWithoutOld ==
    print_vdev_stats_rows(<<>>, st_root[1], [tag |-> "pool", id |-> <<>>],
                          <<>>, 0, "normal")

\* C13: with a previous snapshot whose child counts differ from the new
\* one's, iostat -v prints, in the same order, exactly the rows it prints
\* without a previous snapshot that lie within the first min(old, new)
\* entries of every children array and of the cache array on their path, and
\* no row beyond them.
C13_TruncatedToShorter ==
    (st_pc = "done" /\ st_cmd = "iostat" /\ st_oldroot # <<>>) =>
        SelectSeq(st_out, LAMBDA r : r.kind = "row") =
            SelectSeq(RowsWithoutOld, RowWithinBoth)

\* C13 witness: the new snapshot has two plain disks and a cache device, the
\* old one has one disk and no cache device: the pool and the first disk
\* are printed and nothing else.
C13_Witness ==
    /\ st_pc = "done"
    /\ st_cmd = "iostat"
    /\ st_oldroot # <<>>
    /\ Len(st_root[1].children) = 2
    /\ Len(st_oldroot[1].children) = 1
    /\ st_root[1].children[2] = DiskNv(vs_clean)
    /\ st_root[1].children[1] = DiskNv(vs_clean)
    /\ Len(st_root[1].l2cache) = 1
    /\ st_oldroot[1].l2cache = <<>>
    /\ st_out = <<Row("normal", <<>>, 0), Row("normal", <<1>>, 2)>>

\* Path p comes before path q when the tree is walked in array order, a
\* vdev before its children.
PathBefore(p, q) ==
    /\ p # q
    /\ \/ IsPrefix(p, q)
       \/ \E k \in 1..MIN(Len(p), Len(q)) :
              /\ SubSeq(p, 1, k - 1) = SubSeq(q, 1, k - 1)
              /\ p[k] < q[k]

\* The top-level vdevs the default walk is to print: no hole, no indirect
\* vdev, no log, no vdev with an allocation bias.
DefaultTops ==
    {c \in DOMAIN st_root[1].children :
        LET top == st_root[1].children[c]
        IN  /\ top.type \notin {"hole", "indirect"}
            /\ top.is_hole = 0
            /\ top.is_log = 0
            /\ top.alloc_bias = <<>>}

\* C15: in status, list -v and iostat -v no row is printed for a hole or
\* for an indirect vdev (the naming flags of these walks include the
\* type-id suffix); the rows of the default walk come in array order, a
\* vdev before its children; and, when no previous snapshot truncates the
\* walk, every other top-level vdev of the normal class has its row.
C15_DefaultWalk ==
    (st_pc = "done" /\ st_cmd \in {"status", "list", "iostat"}) =>
        /\ \A i \in DOMAIN st_out :
               (st_out[i].kind = "row" /\ ArrayOf(st_out[i]) = "children") =>
                   NodeAt(st_root[1], st_out[i].name).type
                       \notin {"hole", "indirect"}
        /\ \A i, j \in DOMAIN st_out :
               (/\ i < j
                /\ st_out[i].kind = "row"
                /\ st_out[j].kind = "row"
                /\ st_out[i].section = "normal"
                /\ st_out[j].section = "normal") =>
                   PathBefore(st_out[i].name, st_out[j].name)
        /\ st_oldroot = <<>> =>
               \A c \in DefaultTops :
                   \E i \in DOMAIN st_out : st_out[i] = Row("normal", <<c>>, 2)

\* C15 witness: list -v of a pool whose first top-level vdev is indirect and
\* whose second is a disk: under the line of the pool only the disk is
\* printed.
C15_Witness ==
    /\ st_pc = "done"
    /\ st_cmd = "list"
    /\ Len(st_root[1].children) = 2
    /\ st_root[1].children[1].type = "indirect"
    /\ st_root[1].children[1].is_log = 0
    /\ st_root[1].children[1].alloc_bias = <<>>
    /\ st_root[1].children[2] = DiskNv(vs_clean)
    /\ st_root[1].l2cache = <<>>
    /\ st_root[1].spares = <<>>
    /\ st_out = <<Row("normal", <<2>>, 2)>>

\* C30: in a status, list -v or iostat -v render (with no previous snapshot
\* that truncates the walk) every top-level child that is neither a hole
\* nor an indirect vdev has a row in some section, whatever its allocation
\* bias is.
C30_EveryTopRendered ==
    (st_pc = "done" /\ st_cmd \in {"status", "list", "iostat"}
        /\ st_oldroot = <<>>) =>
        \A c \in DOMAIN st_root[1].children :
            LET top == st_root[1].children[c]
            IN  (top.type \notin {"hole", "indirect"} /\ top.is_hole = 0) =>
                    \E i \in DOMAIN st_out :
                        /\ st_out[i].kind = "row"
                        /\ ArrayOf(st_out[i]) = "children"
                        /\ st_out[i].name = <<c>>

\* The top-level vdev belongs to the class: a log for "logs", or its
\* allocation bias names the class.
MatchesClass(top, class) ==
    \/ top.is_log # 0 /\ class = "logs"
    \/ top.alloc_bias # <<>> /\ BiasSection(top.alloc_bias[1]) = class

\* C16: in every render the header of each of the logs, dedup and special
\* sections is printed at most once, and only when the pool has a top-level
\* vdev of that class.
C16_ClassHeaderLazy ==
    st_pc = "done" =>
        \A n \in DOMAIN class_name :
            LET heads == {i \in DOMAIN st_out :
                             st_out[i] = Header(class_name[n])}
            IN  /\ Cardinality(heads) <= 1
                /\ heads # {} =>
                       \E c \in DOMAIN st_root[1].children :
                           MatchesClass(st_root[1].children[c], class_name[n])

\* C16 witness: zpool import of a pool whose two top-level vdevs are log
\* disks: one logs header, both log rows, and no other class header.
C16_Witness ==
    /\ st_pc = "done"
    /\ st_cmd = "import"
    /\ Len(st_root[1].children) = 2
    /\ \A c \in 1..2 :
           /\ st_root[1].children[c].is_log = 1
           /\ st_root[1].children[c].type = "disk"
           /\ st_root[1].children[c].alloc_bias = <<>>
    /\ Cardinality({i \in DOMAIN st_out : st_out[i] = Header("logs")}) = 1
    /\ \E i \in DOMAIN st_out : st_out[i] = Row("logs", <<2>>, 2)
    /\ \A i \in DOMAIN st_out :
           st_out[i] \notin {Header("dedup"), Header("special")}

(***************************************************************************)
(* The name column width: max_width and get_namewidth (zpool_common.c),    *)
(* as zpool status and zpool list -v call them                             *)
(***************************************************************************)
\* MAX(a, b).
MAX(a, b) == IF a > b THEN a ELSE b

\* strlen(name) of a name zpool_vdev_name() returned: the length of the type
\* string, plus two for a "-N" suffix; a leaf is named after its device, a
\* three-letter name here.
strlen_name(name) ==
    (CASE name.tag = "path" -> 3
       [] name.tag = "mirror" -> 6
       [] name.tag = "indirect" -> 8
       [] name.tag = "hole" -> 4
       [] OTHER -> 4) +
    (IF name.id # <<>> THEN 2 ELSE 0)

\* max_width(zhp, nv, depth, max, name_flags), where nv is siblings[c] and
\* VDEV_NAME_TYPE_ID is in name_flags: the name of the node itself, then
\* every node of its spares, l2cache and children arrays.
RECURSIVE max_width(_, _, _, _)
RECURSIVE max_width_array(_, _, _, _)
max_width_array(arr, c, depth, max) ==
    IF c > Len(arr)
    THEN max
    ELSE max_width_array(arr, c + 1, depth,
                         MAX(max_width(arr, c, depth + 2, max), max))

max_width(siblings, c, depth, max) ==
    LET nv == siblings[c]
        own == MAX(strlen_name(zpool_vdev_name(siblings, c, TRUE)) + depth,
                   max)
    IN  max_width_array(nv.children, 1, depth,
            max_width_array(nv.l2cache, 1, depth,
                max_width_array(nv.spares, 1, depth, own)))

\* get_namewidth(zhp, min_width, flags, verbose).
get_namewidth(root, poolname_len, min_width, verbose) ==
    IF ~verbose
    THEN MAX(poolname_len, min_width)
    ELSE MAX(poolname_len, max_width(<<root>>, 1, 0, min_width))

\* The top-level vdevs of the pools measured.
WidthTops ==
    {VdevNv(t, 0, 0, <<>>, vs_clean, <<>>) : t \in {"disk", "indirect"}} \cup
    {VdevNv("hole", 0, 1, <<>>, vs_clean, <<>>),
     MirrorNv(<<DiskNv(vs_clean), DiskNv(vs_clean)>>)}

InitWidth ==
    /\ nw_cmd \in {"status", "list"}
    /\ nw_root \in {<<RootNv(tops, l2cache, spares)>> :
                       tops \in SeqsBetween(WidthTops, 1, MaxTop),
                       l2cache \in AuxArrays, spares \in AuxArrays}
    /\ nw_poolname_len \in {4, 12}
    /\ nw_width = <<>>
    /\ IostatIdle
    /\ TrimIdle
    /\ StatusIdle
    /\ WaitIdle
    /\ BlkioIdle
    /\ HistoIdle
    /\ EstIdle
    /\ IoIdle
    /\ DiskIdle
    /\ AccIdle
    /\ ExitIdle
    /\ VbioIdle
    /\ WlIdle
    /\ RoIdle
    /\ GetIdle

\* The width the root of a pool gives zpool list -v: cb_namewidth starts at
\* 0 and the result is at least 9.
list_namewidth(root, poolname_len) ==
    MAX(get_namewidth(root, poolname_len, 0, TRUE), 9)

\* The width the root of a pool gives zpool status: max_width() from 0, and
\* at least 10.
status_namewidth(root) == MAX(max_width(<<root>>, 1, 0, 0), 10)

\* get_namewidth_list() on the pool, with cb_verbose.
get_namewidth_list ==
    /\ nw_cmd = "list"
    /\ nw_width = <<>>
    /\ nw_width' = <<list_namewidth(nw_root[1], nw_poolname_len)>>
    /\ UNCHANGED <<nw_cmd, nw_root, nw_poolname_len>>
    /\ UNCHANGED <<iostatVars, trimVars, statusVars, waitVars, blkioVars, histoVars, estVars, ioVars, diskVars, accVars, exitVars, vbioVars, wlVars, roVars, getVars>>

\* status_callback(): the width of the NAME column of the config section.
status_callback_namewidth ==
    /\ nw_cmd = "status"
    /\ nw_width = <<>>
    /\ nw_width' = <<status_namewidth(nw_root[1])>>
    /\ UNCHANGED <<nw_cmd, nw_root, nw_poolname_len>>
    /\ UNCHANGED <<iostatVars, trimVars, statusVars, waitVars, blkioVars, histoVars, estVars, ioVars, diskVars, accVars, exitVars, vbioVars, wlVars, roVars, getVars>>

NextWidth ==
    \/ get_namewidth_list
    \/ status_callback_namewidth

SpecWidth == InitWidth /\ [][NextWidth]_vars

\* The pool without its indirect top-level vdevs.
WithoutIndirect(root) ==
    [root EXCEPT !.children =
        SelectSeq(@, LAMBDA nv : nv.type # "indirect")]

\* C14: the name column width computed for a pool is the width computed
\* for the same pool with its indirect vdevs left out.
C14_WidthIgnoresIndirect ==
    nw_width # <<>> =>
        nw_width[1] =
            IF nw_cmd = "list"
            THEN list_namewidth(WithoutIndirect(nw_root[1]), nw_poolname_len)
            ELSE status_namewidth(WithoutIndirect(nw_root[1]))

(***************************************************************************)
(* zpool status: the remaining-time estimate of a scan, a removal and a    *)
(* raidz expansion in progress (cmd/zpool/zpool_status.c)                  *)
(***************************************************************************)
\* The issue rate below which a scan shows no estimate: 10 * 1024 * 1024
\* bytes per second in the source.  The sizes of a scan are counted in MiB
\* here, which makes it 10.
MIN_ISSUE_RATE == 10

\* 30 * 24 * 3600: the seconds of 30 days.
THIRTY_DAYS == 2592000

\* The end of the progress line.
NoEstimate == <<"no estimate">>
ToGo(secs) == <<"to go", secs>>

\* The test of print_raidz_expand_status() with the limit included (a
\* plausible slip: a projection of exactly 30 days is then still shown).
estimate_shown_inclusive(secs_left) == secs_left <= THIRTY_DAYS

\* The test of print_raidz_expand_status(): secs_left < 30 * 24 * 3600.
estimate_shown(secs_left) == secs_left < THIRTY_DAYS

\* elapsed of print_scan_scrub_resilver_status(), 1 if it is 0.
scan_elapsed(ps) ==
    LET elapsed == ps.now - ps.pss_pass_start - ps.pss_pass_scrub_spent_paused
    IN  IF elapsed # 0 THEN elapsed ELSE 1

\* issue_rate of print_scan_scrub_resilver_status().
scan_issue_rate(ps) == ps.pss_pass_issued \div scan_elapsed(ps)

\* The end of the progress line of a scan in state DSS_SCANNING.
scan_estimate(ps) ==
    LET issued == ps.pss_issued
        total_i == ps.pss_to_examine - ps.pss_skipped
        issue_rate == scan_issue_rate(ps)
        is_resilver == ps.pss_func = "POOL_SCAN_RESILVER"
        is_scrub == ps.pss_func = "POOL_SCAN_SCRUB"
    IN  IF ps.pss_pass_scrub_pause = 0
        THEN IF /\ total_i >= issued
                /\ issue_rate >= MIN_ISSUE_RATE
                /\ \/ is_resilver /\ ps.pss_processed > 0
                   \/ is_scrub /\ issued > 0
             THEN ToGo((total_i - issued) \div issue_rate)
             ELSE NoEstimate
        ELSE <<"paused">>

\* copied / elapsed of print_removal_status() and
\* print_raidz_expand_status(), before it is raised to 1.
copy_rate(st) ==
    LET copied == IF st.copied > 0 THEN st.copied ELSE 1
        elapsed == IF st.now - st.start_time > 0
                   THEN st.now - st.start_time
                   ELSE 1
    IN  copied \div elapsed

\* secs_left of print_raidz_expand_status(); print_removal_status() has it
\* as (total - copied) / rate before it divides by 60.
copy_secs_left(st) ==
    LET copied == IF st.copied > 0 THEN st.copied ELSE 1
        rate == IF copy_rate(st) > 0 THEN copy_rate(st) ELSE 1
    IN  (st.total - copied) \div rate

\* The end of the progress line of a removal in state DSS_SCANNING.
removal_estimate(prs) ==
    LET mins_left == copy_secs_left(prs) \div 60
        hours_left == mins_left \div 60
    IN  IF hours_left < 30 * 24
        THEN <<"to go", hours_left, mins_left % 60>>
        ELSE NoEstimate

\* The end of the progress line of a raidz expansion in state DSS_SCANNING.
expand_estimate(pres) ==
    IF pres.waiting_for_resilver # 0
    THEN <<"paused">>
    ELSE IF estimate_shown(copy_secs_left(pres))
         THEN ToGo(copy_secs_left(pres))
         ELSE NoEstimate

\* The statistics of a scan in progress: a scrub or a resilver, paused or
\* not, with nothing or something issued, slow or fast, and with little or
\* much left to do.
ScanStats ==
    [pss_func : {"POOL_SCAN_SCRUB", "POOL_SCAN_RESILVER"},
     pss_pass_scrub_pause : {0, 1},
     pss_processed : {0, 1},
     pss_issued : {0, 100},
     pss_to_examine : {50, 200, 100 + 40 * THIRTY_DAYS},
     pss_skipped : {0},
     pss_pass_issued : {0, 5, 40},
     pss_pass_start : {0},
     pss_pass_scrub_spent_paused : {0},
     now : {0, 1, 2}]

\* The statistics of a removal or an expansion in progress, with the names
\* of the fields the two have in common: prs_copied or pres_reflowed,
\* prs_to_copy or pres_to_reflow, and the start time.
CopyStats ==
    [copied : {0, 1, 1000},
     total : {1000, 1000 + THIRTY_DAYS - 1, 1000 + THIRTY_DAYS,
              1000 + 2 * THIRTY_DAYS},
     start_time : {0},
     now : {0, 1, 2000},
     waiting_for_resilver : {0, 1}]

InitEst ==
    /\ est_kind \in {"scan", "removal", "expand"}
    /\ est_in \in IF est_kind = "scan"
                  THEN {<<ps>> : ps \in ScanStats}
                  ELSE {<<st>> : st \in
                           {x \in CopyStats : est_kind = "removal" =>
                                                 x.waiting_for_resilver = 0}}
    /\ est_out = <<>>
    /\ IostatIdle
    /\ TrimIdle
    /\ StatusIdle
    /\ WaitIdle
    /\ BlkioIdle
    /\ HistoIdle
    /\ NwIdle
    /\ IoIdle
    /\ DiskIdle
    /\ AccIdle
    /\ ExitIdle
    /\ VbioIdle
    /\ WlIdle
    /\ RoIdle
    /\ GetIdle

EstOthersUnchanged ==
    UNCHANGED <<iostatVars, trimVars, statusVars, waitVars, blkioVars, histoVars, nwVars, ioVars, diskVars, accVars, exitVars, vbioVars, wlVars, roVars, getVars>>

print_scan_scrub_resilver_status ==
    /\ est_kind = "scan"
    /\ est_out = <<>>
    /\ est_out' = scan_estimate(est_in[1])
    /\ UNCHANGED <<est_kind, est_in>>
    /\ EstOthersUnchanged

print_removal_status ==
    /\ est_kind = "removal"
    /\ est_out = <<>>
    /\ est_out' = removal_estimate(est_in[1])
    /\ UNCHANGED <<est_kind, est_in>>
    /\ EstOthersUnchanged

print_raidz_expand_status ==
    /\ est_kind = "expand"
    /\ est_out = <<>>
    /\ est_out' = expand_estimate(est_in[1])
    /\ UNCHANGED <<est_kind, est_in>>
    /\ EstOthersUnchanged

NextEst ==
    \/ print_scan_scrub_resilver_status
    \/ print_removal_status
    \/ print_raidz_expand_status

SpecEst == InitEst /\ [][NextEst]_vars

\* The rate the progress line is computed from: the issue rate of the pass
\* for a scan, bytes copied by seconds elapsed for a removal or an expansion.
ComputedRate ==
    IF est_kind = "scan"
    THEN scan_issue_rate(est_in[1])
    ELSE copy_rate(est_in[1])

\* What is left to do: to issue for a scan, to copy otherwise.
LeftToDo ==
    IF est_kind = "scan"
    THEN est_in[1].pss_to_examine - est_in[1].pss_skipped - est_in[1].pss_issued
    ELSE est_in[1].total - MAX(est_in[1].copied, 1)

\* C17, as stated: no remaining-time estimate is shown for a scan, a removal
\* or a raidz expansion in progress whenever the computed rate is zero or
\* the projected remaining time exceeds 30 days.
C17_Original ==
    est_out # <<>> =>
        ((\/ ComputedRate = 0
          \/ ComputedRate > 0 /\ LeftToDo \div ComputedRate > THIRTY_DAYS)
            => est_out[1] # "to go")

\* C17, amended: a scan in progress shows no estimate whenever its issue
\* rate is below 10 MiB/s, zero included, and has no limit on the estimate
\* it shows otherwise; a removal and a raidz expansion take a computed rate
\* of zero as one byte per second, and show the time projected with that
\* rate exactly when it is less than 30 days (an expansion waiting for a
\* resilver shows none).
C17_EstimateFallback ==
    est_out # <<>> =>
        IF est_kind = "scan"
        THEN ComputedRate < MIN_ISSUE_RATE => est_out[1] # "to go"
        ELSE LET secs_left == LeftToDo \div MAX(ComputedRate, 1)
             IN  IF est_kind = "expand" /\ est_in[1].waiting_for_resilver # 0
                 THEN est_out[1] # "to go"
                 ELSE IF secs_left < THIRTY_DAYS
                      THEN est_out =
                               IF est_kind = "expand"
                               THEN ToGo(secs_left)
                               ELSE <<"to go", secs_left \div 3600,
                                      (secs_left \div 60) % 60>>
                      ELSE est_out = NoEstimate

\* C17 witness: a removal that has copied nothing in 2000 seconds, so that
\* its computed rate is zero, with 999 bytes left: "0h16m to go".
C17_Witness ==
    /\ est_kind = "removal"
    /\ est_in[1].copied = 0
    /\ est_in[1].now = 2000
    /\ est_in[1].total = 1000
    /\ ComputedRate = 0
    /\ est_out = <<"to go", 0, 16>>

(***************************************************************************)
(* zpool iostat with an interval: the loop of zpool_do_iostat over the     *)
(* pools of its list (cmd/zpool/zpool_iostat.c)                            *)
(***************************************************************************)
\* The pools on the command line and the iterations the command runs.
MaxPools == 3
MaxIter == 3

\* pool_list_iter() after its callback removed the node it was called on
\* and stepping one further all the same (a plausible slip: the pool that
\* moved up is then left out of the pass).
next_after_remove_skips(c) == c + 1

\* pool_list_iter(), of zpool_iter.c: it calls the callback on every pool
\* of the list, whatever the callback returns, and goes on with the pool
\* that followed when the callback removed the one it was called on.
next_after_remove(c) == c

\* pool_list_remove(list, zhp) on the pool at position c.
pool_list_remove(list, c) ==
    SubSeq(list, 1, c - 1) \o SubSeq(list, c + 1, Len(list))

InitIo ==
    /\ io_list = [i \in 1..MaxPools |-> i]
    /\ io_phase = "refresh"
    /\ io_cursor = 1
    /\ io_iter = 1
    /\ io_gone = {}
    /\ io_log = {}
    /\ IostatIdle
    /\ TrimIdle
    /\ StatusIdle
    /\ WaitIdle
    /\ BlkioIdle
    /\ HistoIdle
    /\ NwIdle
    /\ EstIdle
    /\ DiskIdle
    /\ AccIdle
    /\ ExitIdle
    /\ VbioIdle
    /\ WlIdle
    /\ RoIdle
    /\ GetIdle

IoOthersUnchanged ==
    UNCHANGED <<iostatVars, trimVars, statusVars, waitVars, blkioVars, histoVars, nwVars, estVars, diskVars, accVars, exitVars, vbioVars, wlVars, roVars, getVars>>

\* refresh_iostat() on the pool pool_list_iter() is at:
\* zpool_refresh_stats() fails, or succeeds and reports the pool missing or
\* present; a missing pool is removed from the list.
refresh_iostat ==
    /\ io_phase = "refresh"
    /\ io_cursor <= Len(io_list)
    /\ LET pool == io_list[io_cursor]
       IN  /\ io_log' = io_log \cup {<<io_iter, pool, "refreshed">>}
           /\ \E result \in {"error", "missing", "present"} :
                  IF result = "missing"
                  THEN /\ io_list' = pool_list_remove(io_list, io_cursor)
                       /\ io_cursor' = next_after_remove(io_cursor)
                       /\ io_gone' = io_gone \cup {<<io_iter, pool>>}
                  ELSE /\ io_cursor' = io_cursor + 1
                       /\ UNCHANGED <<io_list, io_gone>>
    /\ UNCHANGED <<io_phase, io_iter>>
    /\ IoOthersUnchanged

\* print_iostat() on the pool pool_list_iter() is at.
print_iostat_pool ==
    /\ io_phase = "print"
    /\ io_cursor <= Len(io_list)
    /\ io_log' = io_log \cup {<<io_iter, io_list[io_cursor], "rendered">>}
    /\ io_cursor' = io_cursor + 1
    /\ UNCHANGED <<io_list, io_phase, io_iter, io_gone>>
    /\ IoOthersUnchanged

\* The loop of zpool_do_iostat() between the passes: with no pool in the
\* list it prints "no pools available" and sleeps; after the refresh pass
\* comes the print pass, after the print pass the next iteration, until
\* the count is used up.
zpool_do_iostat ==
    /\ io_phase \in {"refresh", "print"}
    /\ io_cursor > Len(io_list)
    /\ IF io_phase = "refresh" /\ io_list # <<>>
       THEN /\ io_phase' = "print"
            /\ io_cursor' = 1
            /\ UNCHANGED io_iter
       ELSE IF io_iter < MaxIter
            THEN /\ io_phase' = "refresh"
                 /\ io_cursor' = 1
                 /\ io_iter' = io_iter + 1
            ELSE /\ io_phase' = "done"
                 /\ UNCHANGED <<io_cursor, io_iter>>
    /\ UNCHANGED <<io_list, io_gone, io_log>>
    /\ IoOthersUnchanged

NextIo ==
    \/ refresh_iostat
    \/ print_iostat_pool
    \/ zpool_do_iostat

SpecIo == InitIo /\ [][NextIo]_vars

\* The pools reported missing in iteration k or before.
GoneBy(k) == {g[2] : g \in {x \in io_gone : x[1] <= k}}

\* The iterations that are over.
IterationsOver ==
    {k \in 1..MaxIter : k < io_iter \/ io_phase = "done"}

zfs_vdev_open_timeout_ms == 2
MaxDiskZio == 2

ENOENT == 2
ERESTARTSYS == 512
ENXIO == 6

IS_ERR(bdev) == bdev # 0

\* A variant of open_retry that sleeps and retries after any error.
open_retry_any(err, removed) ==
    IF err = 0 THEN "ok"
    ELSE IF err = ERESTARTSYS THEN "continue"
    ELSE "sleep"

\* What the body of the open loop does with the result of
\* vdev_blkdev_get_by_path(): sleep and go round again, go round again
\* with a longer timeout, or leave the loop.
open_retry(err, removed) ==
    IF err = ENOENT THEN (IF removed THEN "break" ELSE "sleep")
    ELSE IF err = ERESTARTSYS THEN "continue"
    ELSE IF IS_ERR(err) THEN "break"
    ELSE "ok"

InitDisk ==
    /\ dk_pc = "closed"
    /\ dk_bdev = 0
    /\ dk_timeout = 0
    /\ dk_elapsed = 0
    /\ dk_removed \in BOOLEAN
    /\ dk_attempts = 0
    /\ dk_prev = 0
    /\ dk_ret = -1
    /\ dk_zio = <<>>
    /\ dk_nzio = 0
    /\ IostatIdle
    /\ TrimIdle
    /\ StatusIdle
    /\ WaitIdle
    /\ BlkioIdle
    /\ HistoIdle
    /\ NwIdle
    /\ EstIdle
    /\ IoIdle
    /\ AccIdle
    /\ ExitIdle
    /\ VbioIdle
    /\ WlIdle
    /\ RoIdle
    /\ GetIdle

DiskOthersUnchanged ==
    UNCHANGED <<iostatVars, trimVars, statusVars, waitVars, blkioVars, histoVars, nwVars, estVars, ioVars, accVars, exitVars, vbioVars, wlVars, roVars, getVars>>

\* vdev_disk_open() up to its loop: a path that is not absolute is refused;
\* a reopen that re-read the partition table doubles the timeout.
vdev_disk_open ==
    /\ dk_pc = "closed"
    /\ \E path_ok \in BOOLEAN, reread_part \in BOOLEAN :
          IF ~path_ok
          THEN /\ dk_pc' = "invalid"
               /\ dk_ret' = EINVAL
               /\ UNCHANGED <<dk_bdev, dk_timeout, dk_elapsed>>
          ELSE /\ dk_pc' = "loop"
               /\ dk_timeout' = IF reread_part
                                THEN zfs_vdev_open_timeout_ms * 2
                                ELSE zfs_vdev_open_timeout_ms
               /\ dk_elapsed' = 0
               /\ dk_bdev' = ENXIO
               /\ UNCHANGED dk_ret
    /\ UNCHANGED <<dk_removed, dk_attempts, dk_prev, dk_zio, dk_nzio>>
    /\ DiskOthersUnchanged

\* One pass of the loop: while bdev is an error and the timeout has not
\* run out, vdev_blkdev_get_by_path() is called again.
vdev_blkdev_get_by_path ==
    /\ dk_pc = "loop"
    /\ IS_ERR(dk_bdev)
    /\ dk_elapsed < dk_timeout
    /\ \E result \in {0, ENOENT, ERESTARTSYS, ENXIO} :
          /\ dk_prev' = dk_bdev
          /\ dk_bdev' = result
          /\ dk_attempts' = dk_attempts + 1
          /\ dk_elapsed' = dk_elapsed + 1
          /\ dk_timeout' = IF open_retry(result, dk_removed) = "continue"
                           THEN zfs_vdev_open_timeout_ms * 10
                           ELSE dk_timeout
          /\ dk_pc' = IF open_retry(result, dk_removed) = "break"
                      THEN "out" ELSE "loop"
    /\ UNCHANGED <<dk_removed, dk_ret, dk_zio, dk_nzio>>
    /\ DiskOthersUnchanged

\* After the loop: an error in bdev is returned and vd_bdev stays NULL,
\* a block device is kept in vd_bdev.
vdev_disk_open_return ==
    /\ \/ dk_pc = "out"
       \/ dk_pc = "loop" /\ ~(IS_ERR(dk_bdev) /\ dk_elapsed < dk_timeout)
    /\ IF IS_ERR(dk_bdev)
       THEN dk_pc' = "failed" /\ dk_ret' = dk_bdev
       ELSE dk_pc' = "open" /\ dk_ret' = 0
    /\ UNCHANGED <<dk_bdev, dk_timeout, dk_elapsed, dk_removed, dk_attempts,
                   dk_prev, dk_zio, dk_nzio>>
    /\ DiskOthersUnchanged

DiskZio(type, submits, failure, error, returned, state) ==
    [type |-> type, submits |-> submits, failure |-> failure,
     error |-> error, returned |-> returned, state |-> state]

\* vdev_disk_io_start(): submits counts how often the request was handed to
\* the block layer, failure is what the block layer answered, returned
\* counts the calls of zio_interrupt() and zio_execute().
vdev_disk_io_start ==
    /\ dk_pc \in {"invalid", "failed", "open"}
    /\ dk_nzio < MaxDiskZio
    /\ IF dk_zio = <<>> THEN TRUE ELSE dk_zio[1].state = "done"
    /\ dk_nzio' = dk_nzio + 1
    /\ \E type \in {"read", "write", "flush", "ioctl", "trim", "other"},
          pre \in {"go", "unreadable", "nocacheflush", "nowritecache"},
          e \in {0, EIO} :
          dk_zio' = << 
             IF dk_pc # "open"
             THEN DiskZio(type, 0, 0, ENXIO, 1, "done")
             ELSE IF type \in {"flush", "ioctl"}
             THEN IF pre = "unreadable"
                  THEN DiskZio(type, 0, 0, ENXIO, 1, "done")
                  ELSE IF type = "ioctl"
                  THEN DiskZio(type, 0, 0, ENOTSUP, 1, "done")
                  ELSE IF pre = "nocacheflush"
                  THEN DiskZio(type, 0, 0, 0, 1, "done")
                  ELSE IF pre = "nowritecache"
                  THEN DiskZio(type, 0, 0, ENOTSUP, 1, "done")
                  ELSE IF e = 0
                  THEN DiskZio(type, 1, 0, 0, 0, "inflight")
                  ELSE DiskZio(type, 0, e, e, 1, "done")
             ELSE IF type = "trim"
             THEN DiskZio(type, 1, e, e, 1, "done")
             ELSE IF type \in {"read", "write"}
             THEN IF e = 0
                  THEN DiskZio(type, 1, 0, 0, 0, "inflight")
                  ELSE DiskZio(type, 0, e, e, 1, "done")
             ELSE DiskZio(type, 0, 0, ENOTSUP, 1, "done") >>
    /\ UNCHANGED <<dk_pc, dk_bdev, dk_timeout, dk_elapsed, dk_removed,
                   dk_attempts, dk_prev, dk_ret>>
    /\ DiskOthersUnchanged

\* The block layer completes the request: vbio_put() on the last reference
\* or vdev_disk_io_flush_completion() store the error and hand the zio back.
vdev_disk_io_completion ==
    /\ dk_zio # <<>>
    /\ dk_zio[1].state = "inflight"
    /\ \E e \in {0, EIO} :
          dk_zio' = <<DiskZio(dk_zio[1].type, dk_zio[1].submits, e, e,
                              dk_zio[1].returned + 1, "done")>>
    /\ UNCHANGED <<dk_pc, dk_bdev, dk_timeout, dk_elapsed, dk_removed,
                   dk_attempts, dk_prev, dk_ret, dk_nzio>>
    /\ DiskOthersUnchanged

NextDisk ==
    \/ vdev_disk_open
    \/ vdev_blkdev_get_by_path
    \/ vdev_disk_open_return
    \/ vdev_disk_io_start
    \/ vdev_disk_io_completion

SpecDisk == InitDisk /\ [][NextDisk]_vars

\* The I/O side of C19: a request is handed to the block layer at most
\* once and handed back at most once, and once it is done it was handed
\* back exactly once carrying the block layer's failure.
IoAttemptedOnce ==
    dk_zio # <<>> =>
        /\ dk_zio[1].submits <= 1
        /\ dk_zio[1].returned <= 1
        /\ dk_zio[1].state = "done" =>
              /\ dk_zio[1].returned = 1
              /\ dk_zio[1].failure # 0 => dk_zio[1].error = dk_zio[1].failure

\* C19 as stated: the vdev layer performs no retries, every open and every
\* I/O is attempted against the block layer at most once and a failure is
\* reported instead of being attempted again.
C19_Original ==
    /\ dk_attempts <= 1
    /\ IoAttemptedOnce

\* C19: I/O is never retried; vdev_disk_open() calls the block layer again
\* only after ENOENT on a vdev not marked removed or after ERESTARTSYS, only
\* within the open timeout (the configured one, doubled, or tenfold after
\* ERESTARTSYS), and what it returns in the end is the last error.
C19_RetriesOnlyInOpen ==
    /\ IoAttemptedOnce
    /\ dk_attempts > 1 =>
          \/ dk_prev = ENOENT /\ ~dk_removed
          \/ dk_prev = ERESTARTSYS
    /\ dk_attempts <= dk_elapsed
    /\ dk_elapsed <= dk_timeout
    /\ dk_timeout <= zfs_vdev_open_timeout_ms * 10
    /\ dk_pc = "failed" => dk_ret = dk_bdev /\ IS_ERR(dk_bdev)
    /\ dk_pc = "open" => dk_ret = 0 /\ dk_bdev = 0

\* C19 witness: the open failed twice with ENOENT, succeeded at the third
\* call, and a read on the open disk failed in the block layer and was
\* handed back once with EIO.
C19_Witness ==
    /\ dk_pc = "open"
    /\ dk_attempts = 3
    /\ dk_prev = ENOENT
    /\ dk_zio # <<>>
    /\ dk_zio[1] = DiskZio("read", 1, EIO, EIO, 1, "done")

(***************************************************************************)
(* zpool: the exit status of an invocation (SpecExit).                     *)
(***************************************************************************)
\* The status a process that returns ret from main(), or calls exit(ret),
\* ends with: the low eight bits.
exit_status(ret) == ret % 256

\* The invocations: the command word, the options (fine, an invalid one,
\* or -c given twice to iostat), the number of operands, whether the first
\* operand names a pool that can be opened, whether libzfs_init() succeeds
\* and what the library call of the command returns.
Invocations ==
    [cmd : {"", "-?", "bogus", "trim", "initialize", "set", "iostat"},
     opt : {"ok", "invalid", "c_twice"},
     nargs : 0..2,
     pool_ok : BOOLEAN,
     init_ok : BOOLEAN,
     lib_ret : {0, 1}]

InitExit ==
    /\ ex_in \in {<<i>> : i \in Invocations}
    /\ ex_pc = "main"
    /\ ex_ret = 0
    /\ ex_code = -1
    /\ ex_kind = "none"
    /\ IostatIdle
    /\ TrimIdle
    /\ StatusIdle
    /\ WaitIdle
    /\ BlkioIdle
    /\ HistoIdle
    /\ NwIdle
    /\ EstIdle
    /\ IoIdle
    /\ DiskIdle
    /\ AccIdle
    /\ VbioIdle
    /\ WlIdle
    /\ RoIdle
    /\ GetIdle

ExitOthersUnchanged ==
    UNCHANGED <<iostatVars, trimVars, statusVars, waitVars, blkioVars, histoVars, nwVars, estVars, ioVars, diskVars, accVars, vbioVars, wlVars, roVars, getVars>>

\* zpool_usage(requested): exit(requested ? 0 : 2).
zpool_usage(requested) ==
    /\ ex_pc' = "exited"
    /\ ex_code' = exit_status(IF requested THEN 0 ELSE 2)
    /\ ex_kind' = IF requested THEN "success" ELSE "usage"
    /\ UNCHANGED <<ex_in, ex_ret>>

\* A command function returns ret to main().
Return(ret, kind) ==
    /\ ex_pc' = "return"
    /\ ex_ret' = ret
    /\ ex_kind' = kind
    /\ UNCHANGED <<ex_in, ex_code>>

\* main() up to the call of the command function.
main ==
    /\ ex_pc = "main"
    /\ IF ex_in[1].cmd = ""
       THEN zpool_usage(FALSE)
       ELSE IF ex_in[1].cmd = "-?"
       THEN zpool_usage(TRUE)
       ELSE IF ~ex_in[1].init_ok
       THEN Return(1, "failure")
       ELSE IF ex_in[1].cmd = "bogus"
       THEN zpool_usage(FALSE)
       ELSE /\ ex_pc' = ex_in[1].cmd
            /\ UNCHANGED <<ex_in, ex_ret, ex_code, ex_kind>>
    /\ ExitOthersUnchanged

\* zpool_do_trim() and zpool_do_initialize(): an invalid option and a
\* missing pool name are usage errors; a pool that cannot be opened returns
\* -1; otherwise what zpool_trim() or zpool_initialize() returned.
zpool_do_trim ==
    /\ ex_pc \in {"trim", "initialize"}
    /\ IF ex_in[1].opt = "invalid" \/ ex_in[1].nargs < 1
       THEN zpool_usage(FALSE)
       ELSE IF ~ex_in[1].pool_ok
       THEN Return(-1, "failure")
       ELSE Return(ex_in[1].lib_ret,
                   IF ex_in[1].lib_ret = 0 THEN "success" ELSE "failure")
    /\ ExitOthersUnchanged

\* zpool_do_set(): an option, a missing property=value and a missing pool
\* name are usage errors; an operand that is not a pool returns EINVAL;
\* otherwise what for_each_pool() returned.
zpool_do_set ==
    /\ ex_pc = "set"
    /\ IF ex_in[1].opt # "ok" \/ ex_in[1].nargs < 2
       THEN zpool_usage(FALSE)
       ELSE IF ~ex_in[1].pool_ok
       THEN Return(EINVAL, "failure")
       ELSE Return(ex_in[1].lib_ret,
                   IF ex_in[1].lib_ret = 0 THEN "success" ELSE "failure")
    /\ ExitOthersUnchanged

\* zpool_do_iostat(): -c given twice ends with exit(1), an invalid option is
\* a usage error, operands that are neither pools nor vdevs return 1;
\* otherwise ret of the pool list.
zpool_do_iostat_args ==
    /\ ex_pc = "iostat"
    /\ IF ex_in[1].opt = "c_twice"
       THEN /\ ex_pc' = "exited"
            /\ ex_code' = exit_status(1)
            /\ ex_kind' = "failure"
            /\ UNCHANGED <<ex_in, ex_ret>>
       ELSE IF ex_in[1].opt = "invalid"
       THEN zpool_usage(FALSE)
       ELSE IF ex_in[1].nargs > 0 /\ ~ex_in[1].pool_ok
       THEN Return(1, "failure")
       ELSE Return(ex_in[1].lib_ret,
                   IF ex_in[1].lib_ret = 0 THEN "success" ELSE "failure")
    /\ ExitOthersUnchanged

\* main() after the command function: return (ret).
main_return ==
    /\ ex_pc = "return"
    /\ ex_pc' = "exited"
    /\ ex_code' = exit_status(ex_ret)
    /\ UNCHANGED <<ex_in, ex_ret, ex_kind>>
    /\ ExitOthersUnchanged

NextExit ==
    \/ main
    \/ zpool_do_trim
    \/ zpool_do_set
    \/ zpool_do_iostat_args
    \/ main_return

SpecExit == InitExit /\ [][NextExit]_vars

\* C21: an invocation ends with exit status 0 on success, 1 on a failure or
\* an unavailable pool and 2 on a usage error, and with no other status.
C21_ExitCodes ==
    ex_pc = "exited" =>
        /\ ex_code \in {0, 1, 2}
        /\ ex_kind = "success" => ex_code = 0
        /\ ex_kind = "failure" => ex_code = 1
        /\ ex_kind = "usage" => ex_code = 2

(***************************************************************************)
(* vdev_disk: a ZIO split into several BIOs (SpecVbio).  vbio_submit runs  *)
(* in the thread that started the I/O; the completion of each BIO runs in  *)
(* the block layer, on any CPU, as soon as the BIO is submitted.           *)
(***************************************************************************)
MaxBios == 3

\* What a BIO can complete with.
BioResults == {0, EIO, ETIMEDOUT}

\* A variant of vbio_ref_initial without the reference of the submitter.
vbio_ref_bios_only(nbios) == nbios

\* atomic_set(&vbio->vbio_ref, vbio->vbio_nbios + 1): one reference for each
\* BIO and one for vbio_submit itself.
vbio_ref_initial(nbios) == nbios + 1

\* vdev_disk_io_rw() has allocated and filled the VBIO and calls
\* vbio_submit().
InitVbio ==
    /\ vb_1arg \in BOOLEAN
    /\ vb_nbios \in 1..MaxBios
    /\ vb_pc = "start"
    /\ vb_i = 0
    /\ vb_ref = 0
    /\ vb_error = 0
    /\ vb_bio = [b \in 1..vb_nbios |->
                    [state |-> "new", result |-> 0, saw_zero |-> FALSE]]
    /\ vb_freed = 0
    /\ vb_last = "none"
    /\ vb_uaf = FALSE
    /\ vb_first = 0
    /\ vb_zio = [io_error |-> 0, returned |-> 0]
    /\ IostatIdle
    /\ TrimIdle
    /\ StatusIdle
    /\ WaitIdle
    /\ BlkioIdle
    /\ HistoIdle
    /\ NwIdle
    /\ EstIdle
    /\ IoIdle
    /\ DiskIdle
    /\ AccIdle
    /\ ExitIdle
    /\ WlIdle
    /\ RoIdle
    /\ GetIdle

VbioOthersUnchanged ==
    UNCHANGED <<iostatVars, trimVars, statusVars, waitVars, blkioVars, histoVars, nwVars, estVars, ioVars, diskVars, accVars, exitVars, wlVars, roVars, getVars>>

\* Every step below reads or writes the VBIO: after vbio_free that is a use
\* of freed memory.
vbio_touched == vb_uaf' = (vb_uaf \/ vb_freed > 0)

\* vbio_put(): the reference count is decremented atomically; the caller
\* that does not leave it above zero stores the error in the ZIO, frees the
\* VBIO and hands the ZIO back.
vbio_put(who) ==
    /\ vb_ref' = vb_ref - 1
    /\ IF vb_ref - 1 > 0
       THEN UNCHANGED <<vb_zio, vb_freed, vb_last>>
       ELSE /\ vb_zio' = [io_error |-> vb_error,
                          returned |-> vb_zio.returned + 1]
            /\ vb_freed' = vb_freed + 1
            /\ vb_last' = who

\* vbio_submit(): the references are set.
vbio_submit_set ==
    /\ vb_pc = "start"
    /\ vb_ref' = vbio_ref_initial(vb_nbios)
    /\ vb_pc' = "loop"
    /\ vb_i' = 1
    /\ vbio_touched
    /\ UNCHANGED <<vb_1arg, vb_nbios, vb_error, vb_bio, vb_freed, vb_last,
                   vb_first, vb_zio>>
    /\ VbioOthersUnchanged

\* vbio_submit(): one pass of the loop, vdev_submit_bio(vbio->vbio_bio[i]).
vbio_submit_bio ==
    /\ vb_pc = "loop"
    /\ vb_i <= vb_nbios
    /\ vb_bio' = [vb_bio EXCEPT ![vb_i].state = "inflight"]
    /\ vb_i' = vb_i + 1
    /\ vb_pc' = IF vb_i + 1 > vb_nbios THEN "put" ELSE "loop"
    /\ vbio_touched
    /\ UNCHANGED <<vb_1arg, vb_nbios, vb_ref, vb_error, vb_freed, vb_last,
                   vb_first, vb_zio>>
    /\ VbioOthersUnchanged

\* vbio_submit(): the extra reference is released.
vbio_submit_put ==
    /\ vb_pc = "put"
    /\ vbio_put("submit")
    /\ vb_pc' = "done"
    /\ vbio_touched
    /\ UNCHANGED <<vb_1arg, vb_nbios, vb_i, vb_error, vb_bio, vb_first>>
    /\ VbioOthersUnchanged

\* vdev_disk_io_rw_completion() of BIO b: the test vbio->vbio_error == 0.
completion_test(b) ==
    /\ vb_bio[b].state = "inflight"
    /\ \E r \in BioResults :
          /\ vb_bio' = [vb_bio EXCEPT ![b] =
                 [state |-> "tested", result |-> r, saw_zero |-> (vb_error = 0)]]
          /\ vb_first' = IF vb_first = 0 THEN r ELSE vb_first
    /\ vbio_touched
    /\ UNCHANGED <<vb_1arg, vb_nbios, vb_pc, vb_i, vb_ref, vb_error, vb_freed,
                   vb_last, vb_zio>>
    /\ VbioOthersUnchanged

\* vdev_disk_io_rw_completion() of BIO b: the assignment to vbio_error.  With
\* HAVE_1ARG_BIO_END_IO_T the status of the BIO is stored whatever it is;
\* otherwise only an error is.
completion_store(b) ==
    /\ vb_bio[b].state = "tested"
    /\ vb_error' = IF vb_bio[b].saw_zero /\ (vb_1arg \/ vb_bio[b].result # 0)
                   THEN vb_bio[b].result
                   ELSE vb_error
    /\ vb_bio' = [vb_bio EXCEPT ![b].state = "stored"]
    /\ vbio_touched
    /\ UNCHANGED <<vb_1arg, vb_nbios, vb_pc, vb_i, vb_ref, vb_freed, vb_last,
                   vb_first, vb_zio>>
    /\ VbioOthersUnchanged

\* vdev_disk_io_rw_completion() of BIO b: vbio_put(vbio).
completion_put(b) ==
    /\ vb_bio[b].state = "stored"
    /\ vbio_put("bio")
    /\ vb_bio' = [vb_bio EXCEPT ![b].state = "done"]
    /\ vbio_touched
    /\ UNCHANGED <<vb_1arg, vb_nbios, vb_pc, vb_i, vb_error, vb_first>>
    /\ VbioOthersUnchanged

NextVbio ==
    \/ vbio_submit_set
    \/ vbio_submit_bio
    \/ vbio_submit_put
    \/ \E b \in DOMAIN vb_bio : completion_test(b)
    \/ \E b \in DOMAIN vb_bio : completion_store(b)
    \/ \E b \in DOMAIN vb_bio : completion_put(b)

SpecVbio == InitVbio /\ [][NextVbio]_vars

\* C23: the VBIO is freed and the ZIO handed back exactly once, only when
\* the reference count is zero, every BIO has completed and the submission
\* loop has finished, and the VBIO is never touched after it was freed.
C23_FreedAfterAllBios ==
    /\ ~vb_uaf
    /\ vb_freed <= 1
    /\ vb_zio.returned = vb_freed
    /\ vb_freed = 1 =>
          /\ vb_ref = 0
          /\ vb_pc = "done"
          /\ \A b \in DOMAIN vb_bio : vb_bio[b].state = "done"
    /\ (vb_pc = "done" /\ \A b \in DOMAIN vb_bio : vb_bio[b].state = "done")
          => vb_freed = 1

\* C23 witness: of MaxBios BIOs the first completed while the loop was
\* still submitting, and the last reference was dropped by a BIO.
C23_Witness ==
    /\ vb_nbios = MaxBios
    /\ vb_freed = 1
    /\ vb_last = "bio"
    /\ vb_zio.returned = 1

\* C23 witness of the other order: every BIO completed before vbio_submit
\* released its reference, which was the last.
C23_WitnessSubmitLast ==
    /\ vb_nbios = MaxBios
    /\ vb_freed = 1
    /\ vb_last = "submit"

\* C24: the error of the ZIO is the error of the first BIO that completed
\* with one, and it is zero only if every BIO succeeded.
C24_FirstErrorTaken ==
    vb_freed >= 1 =>
        /\ vb_zio.io_error = 0 <=> \A b \in DOMAIN vb_bio : vb_bio[b].result = 0
        /\ vb_zio.io_error = vb_first

(***************************************************************************)
(* zpool wait: the loop of the main thread over the activities             *)
(* (SpecWaitLoop).  Activities begin and end in the pool at any time.      *)
(***************************************************************************)
ZPOOL_WAIT_NUM_ACTIVITIES == 3

Activities == 0..(ZPOOL_WAIT_NUM_ACTIVITIES - 1)

\* A variant of pass_again that never starts another pass.
pass_again_never(error, missing, any_waited) == FALSE

\* if (error != 0 || missing || !any_waited) break; otherwise the outer loop
\* makes another pass.
pass_again(error, missing, any_waited) ==
    ~(error # 0 \/ missing \/ ~any_waited)

InitWaitLoop ==
    /\ wl_enabled \in (SUBSET Activities) \ {{}}
    /\ wl_active \in SUBSET Activities
    /\ wl_pc = "pass"
    /\ wl_i = 0
    /\ wl_any_waited = FALSE
    /\ wl_missing = FALSE
    /\ wl_error = 0
    /\ wl_idle_seen = {}
    /\ wl_owed = {}
    /\ IostatIdle
    /\ TrimIdle
    /\ StatusIdle
    /\ WaitIdle
    /\ BlkioIdle
    /\ HistoIdle
    /\ NwIdle
    /\ EstIdle
    /\ IoIdle
    /\ DiskIdle
    /\ AccIdle
    /\ ExitIdle
    /\ VbioIdle
    /\ RoIdle
    /\ GetIdle

WaitLoopOthersUnchanged ==
    UNCHANGED <<iostatVars, trimVars, statusVars, waitVars, blkioVars, histoVars, nwVars, estVars, ioVars, diskVars, accVars, exitVars, vbioVars, roVars, getVars>>

\* The inner loop is past activity wl_i: on to the next one, or the end of
\* the pass, where the outer loop breaks or starts over with missing and
\* any_waited cleared.
NextActivity(error, missing, any_waited) ==
    IF error # 0 \/ missing
    THEN /\ wl_pc' = "done"
         /\ UNCHANGED wl_i
    ELSE IF wl_i + 1 < ZPOOL_WAIT_NUM_ACTIVITIES
    THEN /\ wl_pc' = "pass"
         /\ wl_i' = wl_i + 1
    ELSE IF pass_again(error, missing, any_waited)
    THEN /\ wl_pc' = "restart"
         /\ wl_i' = 0
    ELSE /\ wl_pc' = "done"
         /\ UNCHANGED wl_i

\* for (;;) { missing = B_FALSE; any_waited = B_FALSE; ...
wait_pass_begin ==
    /\ wl_pc = "restart"
    /\ wl_pc' = "pass"
    /\ wl_missing' = FALSE
    /\ wl_any_waited' = FALSE
    /\ wl_idle_seen' = {}
    /\ UNCHANGED <<wl_enabled, wl_active, wl_i, wl_error, wl_owed>>
    /\ WaitLoopOthersUnchanged

\* One pass of the inner loop: a disabled activity is skipped; for an
\* enabled one zpool_wait_status() fails, finds the pool missing, finds the
\* activity not in progress, or blocks while it is in progress.
zpool_wait_status ==
    /\ wl_pc = "pass"
    /\ IF wl_i \notin wl_enabled
       THEN /\ NextActivity(wl_error, wl_missing, wl_any_waited)
            /\ UNCHANGED <<wl_any_waited, wl_missing, wl_error, wl_idle_seen,
                           wl_owed>>
       ELSE \/ /\ wl_error' = 1
               /\ NextActivity(1, wl_missing, wl_any_waited)
               /\ UNCHANGED <<wl_any_waited, wl_missing, wl_idle_seen, wl_owed>>
            \/ /\ wl_missing' = TRUE
               /\ NextActivity(wl_error, TRUE, wl_any_waited)
               /\ UNCHANGED <<wl_any_waited, wl_error, wl_idle_seen, wl_owed>>
            \/ /\ wl_i \notin wl_active
               /\ wl_idle_seen' = wl_idle_seen \cup {wl_i}
               /\ wl_owed' = wl_owed \ {wl_i}
               /\ NextActivity(wl_error, wl_missing, wl_any_waited)
               /\ UNCHANGED <<wl_any_waited, wl_missing, wl_error>>
            \/ /\ wl_i \in wl_active
               /\ wl_pc' = "waiting"
               /\ UNCHANGED <<wl_i, wl_any_waited, wl_missing, wl_error,
                              wl_idle_seen, wl_owed>>
    /\ UNCHANGED <<wl_enabled, wl_active>>
    /\ WaitLoopOthersUnchanged

\* The blocked zpool_wait_status() returns with waited set once the
\* activity is no longer in progress.
zpool_wait_status_returns ==
    /\ wl_pc = "waiting"
    /\ wl_i \notin wl_active
    /\ wl_any_waited' = TRUE
    /\ wl_owed' = wl_owed \ {wl_i}
    /\ NextActivity(wl_error, wl_missing, TRUE)
    /\ UNCHANGED <<wl_enabled, wl_active, wl_missing, wl_error, wl_idle_seen>>
    /\ WaitLoopOthersUnchanged

\* An activity begins in the pool.
activity_begins ==
    /\ wl_pc \in {"pass", "waiting", "restart"}
    /\ \E a \in Activities \ wl_active :
          /\ wl_active' = wl_active \cup {a}
          /\ wl_owed' = IF wl_pc = "waiting" /\ a \in wl_enabled
                        THEN wl_owed \cup {a}
                        ELSE wl_owed
    /\ UNCHANGED <<wl_enabled, wl_pc, wl_i, wl_any_waited, wl_missing,
                   wl_error, wl_idle_seen>>
    /\ WaitLoopOthersUnchanged

\* An activity in progress ends.
activity_ends ==
    /\ wl_pc \in {"pass", "waiting", "restart"}
    /\ \E a \in wl_active :
          wl_active' = wl_active \ {a}
    /\ UNCHANGED <<wl_enabled, wl_pc, wl_i, wl_any_waited, wl_missing,
                   wl_error, wl_idle_seen, wl_owed>>
    /\ WaitLoopOthersUnchanged

NextWaitLoop ==
    \/ wait_pass_begin
    \/ zpool_wait_status
    \/ zpool_wait_status_returns
    \/ activity_begins
    \/ activity_ends

SpecWaitLoop == InitWaitLoop /\ [][NextWaitLoop]_vars

\* The pass that ended the loop was complete and found every enabled
\* activity not in progress, without waiting for any.
CleanPass ==
    /\ wl_idle_seen = wl_enabled
    /\ ~wl_any_waited

\* C25 as stated: zpool wait returns without error only after a complete
\* pass over the enabled activities in which none was in progress, and an
\* enabled activity that began during a wait was waited for by then.
C25_Original ==
    (wl_pc = "done" /\ wl_error = 0) =>
        /\ CleanPass
        /\ wl_owed = {}

\* C25: zpool wait returns without error only after the pool was found
\* missing or after a complete pass over the enabled activities in which
\* none was in progress; in the second case every enabled activity that
\* began during a wait was waited for, or found over, after it began.
C25_CleanPassOrMissing ==
    (wl_pc = "done" /\ wl_error = 0) =>
        \/ wl_missing
        \/ CleanPass /\ wl_owed = {}

\* C25 witness: with every activity enabled the loop has ended without
\* error after a clean pass, the pool still there.
C25_Witness ==
    /\ wl_pc = "done"
    /\ wl_error = 0
    /\ ~wl_missing
    /\ wl_enabled = Activities
    /\ CleanPass
    /\ wl_i = ZPOOL_WAIT_NUM_ACTIVITIES - 1

(***************************************************************************)
(* vdev_disk: I/O started while the vdev is reopened (SpecReopen).  The    *)
(* vdev is open; vdev_disk_open runs again on it (v->vdev_tsd is set)      *)
(* while other threads call vdev_disk_io_start.                            *)
(***************************************************************************)
MaxReopens == 2
MaxRoZio == 2

RoZios == 1..MaxRoZio

\* A variant of rw_enter_reader that lets a reader in beside the writer.
rw_enter_reader_always(writer) == TRUE

\* rw_enter(&vd->vd_lock, RW_READER) returns only while no writer holds the
\* lock.
rw_enter_reader(writer) == ~writer

InitReopen ==
    /\ ro_writer = FALSE
    /\ ro_readers = {}
    /\ ro_bdev = 1
    /\ ro_released = {}
    /\ ro_handles = 1
    /\ ro_pc = "open"
    /\ ro_local = 0
    /\ ro_reopens = 0
    /\ ro_zio \in [RoZios -> {[type |-> t, pc |-> "new", bdev |-> 0, io_error |-> 0] :
                                 t \in {"read", "flush", "trim", "ioctl", "other"}}]
    /\ ro_stale = FALSE
    /\ IostatIdle
    /\ TrimIdle
    /\ StatusIdle
    /\ WaitIdle
    /\ BlkioIdle
    /\ HistoIdle
    /\ NwIdle
    /\ EstIdle
    /\ IoIdle
    /\ DiskIdle
    /\ AccIdle
    /\ ExitIdle
    /\ VbioIdle
    /\ WlIdle
    /\ GetIdle

ReopenOthersUnchanged ==
    UNCHANGED <<iostatVars, trimVars, statusVars, waitVars, blkioVars, histoVars, nwVars, estVars, ioVars, diskVars, accVars, exitVars, vbioVars, wlVars, getVars>>

\* vdev_disk_open() on the open vdev: rw_enter(&vd->vd_lock, RW_WRITER).
reopen_rw_enter ==
    /\ ro_pc = "open"
    /\ ro_reopens < MaxReopens
    /\ ~ro_writer /\ ro_readers = {}
    /\ ro_writer' = TRUE
    /\ ro_pc' = "take"
    /\ ro_reopens' = ro_reopens + 1
    /\ UNCHANGED <<ro_readers, ro_bdev, ro_released, ro_handles, ro_local,
                   ro_zio, ro_stale>>
    /\ ReopenOthersUnchanged

\* bdev = vd->vd_bdev; vd->vd_bdev = NULL.
reopen_take ==
    /\ ro_pc = "take"
    /\ ro_local' = ro_bdev
    /\ ro_bdev' = 0
    /\ ro_pc' = "put"
    /\ UNCHANGED <<ro_writer, ro_readers, ro_released, ro_handles, ro_reopens,
                   ro_zio, ro_stale>>
    /\ ReopenOthersUnchanged

\* if (bdev) vdev_blkdev_put(bdev, mode, zfs_vdev_holder).
reopen_put ==
    /\ ro_pc = "put"
    /\ ro_released' = IF ro_local # 0 THEN ro_released \cup {ro_local}
                      ELSE ro_released
    /\ ro_pc' = "get"
    /\ UNCHANGED <<ro_writer, ro_readers, ro_bdev, ro_handles, ro_local,
                   ro_reopens, ro_zio, ro_stale>>
    /\ ReopenOthersUnchanged

\* The open loop ends with a new handle or with an error; vd->vd_bdev is set
\* to the handle or to NULL and the lock is released.
reopen_finish ==
    /\ ro_pc = "get"
    /\ \/ /\ ro_handles' = ro_handles + 1
          /\ ro_bdev' = ro_handles + 1
       \/ /\ ro_bdev' = 0
          /\ UNCHANGED ro_handles
    /\ ro_writer' = FALSE
    /\ ro_pc' = "open"
    /\ UNCHANGED <<ro_readers, ro_released, ro_local, ro_reopens, ro_zio,
                   ro_stale>>
    /\ ReopenOthersUnchanged

\* vdev_disk_io_start(): rw_enter(&vd->vd_lock, RW_READER).
io_rw_enter(z) ==
    /\ ro_zio[z].pc = "new"
    /\ rw_enter_reader(ro_writer)
    /\ ro_readers' = ro_readers \cup {z}
    /\ ro_zio' = [ro_zio EXCEPT ![z].pc = "locked"]
    /\ UNCHANGED <<ro_writer, ro_bdev, ro_released, ro_handles, ro_pc,
                   ro_local, ro_reopens, ro_stale>>
    /\ ReopenOthersUnchanged

\* if (vd->vd_bdev == NULL) { rw_exit(); io_error = ENXIO; ... }; otherwise
\* the switch: a read, a flush and a trim read vd->vd_bdev, another ioctl
\* and an unknown type get ENOTSUP.
io_check_bdev(z) ==
    /\ ro_zio[z].pc = "locked"
    /\ IF ro_bdev = 0
       THEN /\ ro_zio' = [ro_zio EXCEPT ![z].pc = "done", ![z].io_error = ENXIO]
            /\ ro_readers' = ro_readers \ {z}
       ELSE IF ro_zio[z].type \in {"read", "flush", "trim"}
       THEN /\ ro_zio' = [ro_zio EXCEPT ![z].pc = "submit", ![z].bdev = ro_bdev]
            /\ UNCHANGED ro_readers
       ELSE /\ ro_zio' = [ro_zio EXCEPT ![z].pc = "exit", ![z].io_error = ENOTSUP]
            /\ UNCHANGED ro_readers
    /\ UNCHANGED <<ro_writer, ro_bdev, ro_released, ro_handles, ro_pc,
                   ro_local, ro_reopens, ro_stale>>
    /\ ReopenOthersUnchanged

\* The request goes to the handle read: vbio_submit(), vdev_submit_bio() of
\* the flush, blkdev_issue_discard(); it is accepted or fails at once.
io_submit(z) ==
    /\ ro_zio[z].pc = "submit"
    /\ ro_stale' = (ro_stale \/ ro_zio[z].bdev \in ro_released)
    /\ \E e \in {0, EIO} :
          ro_zio' = [ro_zio EXCEPT ![z].pc = "exit", ![z].io_error = e]
    /\ UNCHANGED <<ro_writer, ro_readers, ro_bdev, ro_released, ro_handles,
                   ro_pc, ro_local, ro_reopens>>
    /\ ReopenOthersUnchanged

\* rw_exit(&vd->vd_lock) on the way out of vdev_disk_io_start().
io_rw_exit(z) ==
    /\ ro_zio[z].pc = "exit"
    /\ ro_readers' = ro_readers \ {z}
    /\ ro_zio' = [ro_zio EXCEPT ![z].pc = "done"]
    /\ UNCHANGED <<ro_writer, ro_bdev, ro_released, ro_handles, ro_pc,
                   ro_local, ro_reopens, ro_stale>>
    /\ ReopenOthersUnchanged

NextReopen ==
    \/ reopen_rw_enter
    \/ reopen_take
    \/ reopen_put
    \/ reopen_finish
    \/ \E z \in RoZios : io_rw_enter(z)
    \/ \E z \in RoZios : io_check_bdev(z)
    \/ \E z \in RoZios : io_submit(z)
    \/ \E z \in RoZios : io_rw_exit(z)

SpecReopen == InitReopen /\ [][NextReopen]_vars

MaxGetArgs == 3

\* The names a user can give: the pool, its two disks, the two special vdev
\* names and a name that is neither a pool nor a vdev.
GetNames == {"tank", "sda", "sdb", "root", "all-vdevs", "bogus"}
GetPoolVdevs == <<"sda", "sdb">>

\* is_pool(name) and is_vdev() for the pool "tank".
is_pool(name) == name = "tank"
is_vdev(name) == name \in {"sda", "sdb"}

\* are_all_pools(argc, argv).
are_all_pools(argv) == \A i \in 1..Len(argv) : is_pool(argv[i])

\* are_vdevs_in_pool(argc, argv, pool_name, cb): 0 for no names.
are_vdevs_in_pool(argv) ==
    Len(argv) # 0 /\ \A i \in 1..Len(argv) : is_vdev(argv[i])

InitGet ==
    /\ gt_argv \in UNION {[1..n -> GetNames] : n \in 0..MaxGetArgs}
    /\ gt_pc = "start"
    /\ gt_type = "ZFS_TYPE_POOL"
    /\ gt_names = <<>>
    /\ gt_count = 0
    /\ gt_vid = 0
    /\ gt_reported = <<>>
    /\ gt_oob = FALSE
    /\ IostatIdle
    /\ TrimIdle
    /\ StatusIdle
    /\ WaitIdle
    /\ BlkioIdle
    /\ HistoIdle
    /\ NwIdle
    /\ EstIdle
    /\ IoIdle
    /\ DiskIdle
    /\ AccIdle
    /\ ExitIdle
    /\ VbioIdle
    /\ WlIdle
    /\ RoIdle

GetOthersUnchanged ==
    UNCHANGED <<iostatVars, trimVars, statusVars, waitVars, blkioVars, histoVars, nwVars, estVars, ioVars, diskVars, accVars, exitVars, vbioVars, wlVars, roVars>>

\* zpool_do_get() after the property list: no argument or only pool names
\* give a pool query; a pool followed by all-vdevs, by root, or by names
\* that are all vdevs of it gives a vdev query with cb_names = &vdev, the
\* address of one char *, and cb_names_count = argc - 1; anything else is a
\* usage error.
zpool_do_get ==
    /\ gt_pc = "start"
    /\ LET argc == Len(gt_argv)
           rest == Tail(gt_argv)
       IN  IF argc = 0 \/ are_all_pools(gt_argv)
           THEN /\ gt_pc' = "pools"
                /\ UNCHANGED <<gt_type, gt_names, gt_count>>
           ELSE IF is_pool(gt_argv[1])
           THEN IF \/ (argc = 2 /\ gt_argv[2] = "all-vdevs")
                   \/ (argc = 2 /\ gt_argv[2] = "root")
                   \/ are_vdevs_in_pool(rest)
                THEN /\ gt_names' = <<IF gt_argv[2] = "root" THEN "root-0"
                                      ELSE gt_argv[2]>>
                     /\ gt_count' = argc - 1
                     /\ gt_type' = "ZFS_TYPE_VDEV"
                     /\ gt_pc' = "callback"
                ELSE /\ gt_pc' = "usage"
                     /\ UNCHANGED <<gt_type, gt_names, gt_count>>
           ELSE /\ gt_pc' = "usage"
                /\ UNCHANGED <<gt_type, gt_names, gt_count>>
    /\ UNCHANGED <<gt_argv, gt_vid, gt_reported, gt_oob>>
    /\ GetOthersUnchanged

\* The pool query: get_callback prints the pool's properties.
get_callback_pool ==
    /\ gt_pc = "pools"
    /\ gt_pc' = "done"
    /\ UNCHANGED <<gt_argv, gt_type, gt_names, gt_count, gt_vid, gt_reported,
                   gt_oob>>
    /\ GetOthersUnchanged

\* get_callback() of a vdev query: all-vdevs walks the tree of the pool with
\* for_each_vdev, anything else starts the two loops over cb_names.
get_callback ==
    /\ gt_pc = "callback"
    /\ IF gt_names[1] = "all-vdevs"
       THEN /\ gt_reported' = <<"root-0">> \o GetPoolVdevs
            /\ gt_pc' = "done"
       ELSE /\ gt_pc' = "expand"
            /\ UNCHANGED gt_reported
    /\ gt_vid' = 0
    /\ UNCHANGED <<gt_argv, gt_type, gt_names, gt_count, gt_oob>>
    /\ GetOthersUnchanged

\* What cb_names[vid] yields: the element, or, past the end of the array,
\* whatever lies behind the variable vdev on the stack: the process is
\* killed, or some pointer is taken for a name.
cb_names_read(vid) ==
    IF vid < Len(gt_names) THEN {gt_names[vid + 1]}
    ELSE {"<killed>", "<stray pointer>"}

\* One round of the first loop: vdev_expand_proplist(zhp, cb_names[vid]).
vdev_expand_proplist ==
    /\ gt_pc = "expand"
    /\ IF gt_vid < gt_count
       THEN \E name \in cb_names_read(gt_vid) :
               /\ gt_oob' = (gt_oob \/ gt_vid >= Len(gt_names))
               /\ gt_pc' = IF name = "<killed>" THEN "killed" ELSE "expand"
               /\ gt_vid' = gt_vid + 1
       ELSE /\ gt_pc' = "display"
            /\ gt_vid' = 0
            /\ UNCHANGED gt_oob
    /\ UNCHANGED <<gt_argv, gt_type, gt_names, gt_count, gt_reported>>
    /\ GetOthersUnchanged

\* One round of the second loop: get_callback_vdev(zhp, cb_names[vid], data).
get_callback_vdev ==
    /\ gt_pc = "display"
    /\ IF gt_vid < gt_count
       THEN \E name \in cb_names_read(gt_vid) :
               /\ gt_oob' = (gt_oob \/ gt_vid >= Len(gt_names))
               /\ gt_pc' = IF name = "<killed>" THEN "killed" ELSE "display"
               /\ gt_reported' = IF name = "<killed>" THEN gt_reported
                                 ELSE Append(gt_reported, name)
               /\ gt_vid' = gt_vid + 1
       ELSE /\ gt_pc' = "done"
            /\ UNCHANGED <<gt_vid, gt_reported, gt_oob>>
    /\ UNCHANGED <<gt_argv, gt_type, gt_names, gt_count>>
    /\ GetOthersUnchanged

NextGet ==
    \/ zpool_do_get
    \/ get_callback_pool
    \/ get_callback
    \/ vdev_expand_proplist
    \/ get_callback_vdev

SpecGet == InitGet /\ [][NextGet]_vars

\* C28: in a vdev query with k >= 1 names the array handed to the callback
\* holds exactly k names, every index the callback reads lies inside it,
\* and, unless all-vdevs was asked for, properties are reported for each of
\* the k named vdevs.
C28_NameArrayHoldsAll ==
    (gt_type = "ZFS_TYPE_VDEV" /\ gt_pc # "start") =>
        /\ Len(gt_names) = gt_count
        /\ gt_count = Len(gt_argv) - 1
        /\ ~gt_oob
        /\ gt_pc # "killed"
        /\ (gt_pc = "done" /\ gt_names[1] # "all-vdevs") =>
              /\ Len(gt_reported) = gt_count
              /\ \A i \in 1..gt_count :
                    gt_reported[i] = IF gt_argv[i + 1] = "root" THEN "root-0"
                                     ELSE gt_argv[i + 1]

=============================================================================
